---- MODULE Spec2Model ----
(***************************************************************************)
(* Model of the typed configuration engine of MycilaConfig                 *)
(* (src/src/config/*.h) on top of the NVS storage backend                   *)
(* (src/src/MycilaConfigStorageNVS.h).                                      *)
(*                                                                         *)
(* C strings are sequences of one-character strings; a `const char*` is an *)
(* address (written "&name") whose content is Mem[address].  The cache     *)
(* and the validator map of the engine are std::map<const char*, ...>:     *)
(* they are keyed by ADDRESS, while Storage is keyed by CONTENT.           *)
(***************************************************************************)
EXTENDS Integers, Sequences, FiniteSets, TLC

VARIABLES _keys, _name, _cache, _validators, _globalValidatorCallback,
          _changeCallback, _restoreCallback, storage, last, events, calls

vars == <<_keys, _name, _cache, _validators, _globalValidatorCallback,
          _changeCallback, _restoreCallback, storage, last, events, calls>>

-----------------------------------------------------------------------------
(* Characters and C strings                                                *)

\* the characters used by the model, in ASCII order
Alphabet == <<"nul", "\n", "\r", "-", "0", "1", "2", "3", "4", "5", "6", "7", "8", "9", "=",
              "_", "a", "b", "c", "d", "e", "f", "i", "l", "n", "o", "p", "r", "s", "t",
              "u", "w", "x", "y">>

Ord(c) == CHOOSE i \in 1..Len(Alphabet) : Alphabet[i] = c

\* strcmp(a, b): negative, zero or positive
RECURSIVE strcmp(_, _)
strcmp(a, b) ==
  IF a = <<>> /\ b = <<>> THEN 0
  ELSE IF a = <<>> THEN -1
  ELSE IF b = <<>> THEN 1
  ELSE IF Head(a) = Head(b) THEN strcmp(Tail(a), Tail(b))
  ELSE Ord(Head(a)) - Ord(Head(b))

strlen(s) == Len(s)

-----------------------------------------------------------------------------
(* Program memory: the name strings the application passes to the engine   *)

NULL == "nullptr"

WIFI_ENABLE == <<"w", "i", "f", "i", "_", "e", "n", "a", "b", "l", "e">>
WIFI_PWD    == <<"w", "i", "f", "i", "_", "p", "w", "d">>
NOT_A_KEY   == <<"x">>

\* addresses of the name strings of the application: the two literals it
\* gives to configure, a name it never configures, and a buffer that holds
\* the same characters as the literal wifi_pwd
A_ENABLE   == "&wifi_enable"
A_PWD      == "&wifi_pwd"
A_NOKEY    == "&x"
A_PWD_COPY == "&buffer"

\* the name literals of an application whose names contain each other, and
\* of a numeric setting
AP_PWD == <<"a", "p", "_", "p", "w", "d">>
PWD    == <<"p", "w", "d">>
PORT   == <<"p", "o", "r", "t">>

A_AP_PWD == "&ap_pwd"
A_SHORT  == "&pwd"
A_PORT   == "&port"

\* a name literal of 16 characters
AP_WIFI_PASSWORD == <<"a", "p", "_", "w", "i", "f", "i", "_",
                      "p", "a", "s", "s", "w", "o", "r", "d">>

A_LONG == "&ap_wifi_password"

\* address -> content
Mem == (A_ENABLE :> WIFI_ENABLE) @@ (A_PWD :> WIFI_PWD)
       @@ (A_NOKEY :> NOT_A_KEY) @@ (A_PWD_COPY :> WIFI_PWD)
       @@ (A_AP_PWD :> AP_PWD) @@ (A_SHORT :> PWD) @@ (A_PORT :> PORT)
       @@ (A_LONG :> AP_WIFI_PASSWORD)

Addr == DOMAIN Mem

\* the names the application calls the engine with: the literals it
\* configured (same address) and a name it never configured
CallNames == {A_ENABLE, A_PWD, A_NOKEY}

-----------------------------------------------------------------------------
(* Value: the tagged union (Value.h:17-30)                                 *)

\* every Value is a record of the same shape: the active alternative, its
\* numeric payload (bool: 0/1) and its string payload (Str)
Bool(b) == [kind |-> "bool", n |-> IF b THEN 1 ELSE 0, s |-> <<>>]
U8(n)   == [kind |-> "uint8_t", n |-> n, s |-> <<>>]
I32(n)  == [kind |-> "int32_t", n |-> n, s |-> <<>>]
StrV(s) == [kind |-> "Str", n |-> 0, s |-> s]

\* std::optional without a value, and the argument of calls that take none
NoValue == [kind |-> "none", n |-> 0, s |-> <<>>]

\* std::variant::index()
index(v) == v.kind

\* operator== of std::variant: same alternative and same content
\* (Str compares by content, Str.h:76)
ValueEq(a, b) == index(a) = index(b) /\ a.n = b.n /\ a.s = b.s

ABC == <<"a", "b", "c">>

\* the values the application passes to set
Values == {Bool(FALSE), Bool(TRUE), StrV(<<>>), StrV(ABC), U8(1)}

\* the values the application passes to set for the name at address k: every
\* value of the kind it declared for that name and one value of another kind;
\* one value for the name it never declared
ValuesFor(k) ==
  CASE k = A_ENABLE -> {Bool(FALSE), Bool(TRUE), U8(1)}
    [] k = A_PWD    -> {StrV(<<>>), StrV(ABC), Bool(TRUE)}
    [] OTHER        -> {StrV(ABC)}

-----------------------------------------------------------------------------
(* Value <-> text (Value.h:82-178)                                         *)

Digits == <<"0", "1", "2", "3", "4", "5", "6", "7", "8", "9">>

IsDigit(c) == \E i \in 1..Len(Digits) : Digits[i] = c

DigitValue(c) == (CHOOSE i \in 1..Len(Digits) : Digits[i] = c) - 1

\* std::to_string of an integer
RECURSIVE NatToString(_)
NatToString(n) ==
  IF n < 10 THEN <<Digits[n + 1]>>
  ELSE NatToString(n \div 10) \o <<Digits[(n % 10) + 1]>>

\* the digits of a negative integer, computed without negating it (the
\* lowest int32_t has no positive counterpart)
RECURSIVE NegToString(_)
NegToString(n) ==
  LET d == (10 - (n % 10)) % 10 IN
  IF n > -10 THEN <<Digits[d + 1]>>
  ELSE NegToString((n + d) \div 10) \o <<Digits[d + 1]>>

to_string(n) == IF n < 0 THEN <<"-">> \o NegToString(n) ELSE NatToString(n)

\* the digits at the front of s, and what follows them
RECURSIVE LeadingDigits(_)
LeadingDigits(s) ==
  IF s /= <<>> /\ IsDigit(Head(s)) THEN <<Head(s)>> \o LeadingDigits(Tail(s)) ELSE <<>>

RECURSIVE DigitsToNat(_, _)
DigitsToNat(ds, acc) ==
  IF ds = <<>> THEN acc ELSE DigitsToNat(Tail(ds), 10 * acc + DigitValue(Head(ds)))

RECURSIVE DigitsToNeg(_, _)
DigitsToNeg(ds, acc) ==
  IF ds = <<>> THEN acc ELSE DigitsToNeg(Tail(ds), 10 * acc - DigitValue(Head(ds)))

\* strtol that takes digits only
strtol_noSign(str) ==
  LET ds == LeadingDigits(str)
  IN IF ds = <<>> THEN [val |-> 0, endPtr |-> str]
     ELSE [val |-> DigitsToNat(ds, 0), endPtr |-> SubSeq(str, Len(ds) + 1, Len(str))]

\* strtol(str, &endPtr, 10) on the characters of the model (none is white
\* space): an optional sign, then digits; with no digit nothing is consumed.
\* val: the number; endPtr: the characters from *endPtr on.
strtol(str) ==
  LET neg  == str /= <<>> /\ Head(str) = "-"
      body == IF neg THEN Tail(str) ELSE str
      ds   == LeadingDigits(body)
  IN IF ds = <<>> THEN [val |-> 0, endPtr |-> str]
     ELSE [val |-> IF neg THEN DigitsToNeg(ds, 0) ELSE DigitsToNat(ds, 0),
           endPtr |-> SubSeq(body, Len(ds) + 1, Len(body))]

VALUE_TRUE  == <<"t", "r", "u", "e">>
VALUE_FALSE == <<"f", "a", "l", "s", "e">>

\* the texts read as true with MYCILA_CONFIG_EXTENDED_BOOL_VALUE_PARSING
TruthyTexts == {VALUE_TRUE, <<"1">>, <<"o", "n">>, <<"y", "e", "s">>, <<"y">>}

\* Value::toString (Value.h:82-97)
toString(v) ==
  CASE index(v) = "bool" -> IF v.n /= 0 THEN VALUE_TRUE ELSE VALUE_FALSE
    [] index(v) = "Str"  -> v.s
    [] OTHER             -> to_string(v.n)

\* static_cast<T>(val) of the long that strtol / strtoul returned
\* (Value.h:122, 131): uint8_t keeps the low 8 bits; no text of the model
\* is outside the range of int32_t
static_cast(kind, val) == IF kind = "uint8_t" THEN val % 256 ELSE val

\* fromString that does not look at endPtr
fromString_lenient(str, defaultValue) ==
  CASE index(defaultValue) = "bool" -> Bool(str \in TruthyTexts)
    [] index(defaultValue) = "Str"  -> StrV(str)
    [] OTHER ->
         [kind |-> index(defaultValue),
          n |-> static_cast(index(defaultValue), strtol(str).val), s |-> <<>>]

\* Value::fromString(str, defaultValue) (Value.h:99-178): a Value of the
\* kind of defaultValue, or NoValue when a number does not take the whole of
\* str
fromString(str, defaultValue) ==
  CASE index(defaultValue) = "bool" -> Bool(str \in TruthyTexts)
    [] index(defaultValue) = "Str"  -> StrV(str)
    [] OTHER ->
         LET r == strtol(str) IN
         IF r.endPtr = <<>>
           THEN [kind |-> index(defaultValue),
                 n |-> static_cast(index(defaultValue), r.val), s |-> <<>>]
           ELSE NoValue

-----------------------------------------------------------------------------
(* Storage: the interface of Storage.h as implemented by the NVS backend.  *)
(* An item is a typed NVS entry; store/remove either take effect and       *)
(* return true or fail and leave the entry as it was.                      *)

Absent == [type |-> "none", n |-> 0, s |-> <<>>]

StoreNames == {Mem[a] : a \in Addr}

\* the NVS entry type used for a Value kind (storeBool writes a u8)
NvsType(kind) ==
  CASE kind = "bool"    -> "u8"
    [] kind = "uint8_t" -> "u8"
    [] kind = "int32_t" -> "i32"
    [] kind = "Str"     -> "str"

\* the entry written by storeBool/storeU8/storeI32/storeString
Encode(v) == [type |-> NvsType(v.kind), n |-> v.n, s |-> v.s]

\* the value returned by loadBool (value != 0) / loadU8 / loadI32 / loadString
Decode(kind, item) ==
  IF kind = "bool" THEN Bool(item.n /= 0)
  ELSE [kind |-> kind, n |-> item.n, s |-> item.s]

\* NVS::begin: nvs_open succeeds (ok) or not; an open handle is kept
StorageBegin(s, ok) ==
  IF s.handle THEN [s |-> s, ret |-> TRUE]
  ELSE IF ok THEN [s |-> [s EXCEPT !.handle = TRUE], ret |-> TRUE]
  ELSE [s |-> s, ret |-> FALSE]

StorageEnd(s) == [s EXCEPT !.handle = FALSE]

hasKey(s, name) == s.handle /\ s.items[name] /= Absent

\* NVS::remove: true if the key was removed or did not exist
StorageRemove(s, name, ok) ==
  IF ~s.handle THEN [s |-> s, ret |-> FALSE]
  ELSE IF s.items[name] = Absent THEN [s |-> s, ret |-> TRUE]
  ELSE IF ok THEN [s |-> [s EXCEPT !.items[name] = Absent], ret |-> TRUE]
  ELSE [s |-> s, ret |-> FALSE]

\* removeAll that erases the string entries only
StorageRemoveAll_stringsOnly(s, ok) ==
  IF s.handle /\ ok
    THEN [s |-> [s EXCEPT !.items = [n \in StoreNames |->
                   IF s.items[n].type = "str" THEN Absent ELSE s.items[n]]],
          ret |-> TRUE]
    ELSE [s |-> s, ret |-> FALSE]

\* NVS::removeAll: nvs_erase_all and nvs_commit
StorageRemoveAll(s, ok) ==
  IF s.handle /\ ok
    THEN [s |-> [s EXCEPT !.items = [n \in StoreNames |-> Absent]], ret |-> TRUE]
    ELSE [s |-> s, ret |-> FALSE]

\* NVS::storeBool .. storeString
StorageStore(s, name, v, ok) ==
  IF s.handle /\ ok
    THEN [s |-> [s EXCEPT !.items[name] = Encode(v)], ret |-> TRUE]
    ELSE [s |-> s, ret |-> FALSE]

\* NVS::loadBool .. loadString: the entry read as `kind`, or NoValue
StorageLoad(s, name, kind) ==
  IF s.handle /\ s.items[name] /= Absent /\ s.items[name].type = NvsType(kind)
    THEN Decode(kind, s.items[name])
    ELSE NoValue

-----------------------------------------------------------------------------
(* Key registry (Config.h:44-54, 150-153; Key.h)                           *)

Key(name, dv) == [name |-> name, defaultValue |-> dv]

\* std::sort of the registry by strcmp of the names (Config.h:47), as an
\* insertion of the new key into the sorted vector
RECURSIVE SortedInsert(_, _)
SortedInsert(keys, k) ==
  IF keys = <<>> THEN <<k>>
  ELSE IF strcmp(Mem[k.name], Mem[Head(keys).name]) < 0 THEN <<k>> \o keys
  ELSE <<Head(keys)>> \o SortedInsert(Tail(keys), k)

\* Config::configure: push_back, sort, register the validator when given
configure(c, key, defaultValue, callback) ==
  [keys |-> SortedInsert(c.keys, Key(key, defaultValue)),
   validators |-> IF callback THEN c.validators \cup {key} ELSE c.validators]

\* strcmp of the strings at two addresses (strcmp, computed once per pair)
StrcmpOfNames == [a \in Addr, b \in Addr |-> strcmp(Mem[a], Mem[b])]
strcmpAt(a, b) == StrcmpOfNames[a, b]

\* std::lower_bound over keys[lo..hi-1] with the comparator strcmp(a.name, b) < 0
RECURSIVE lower_bound(_, _, _, _)
lower_bound(keys, lo, hi, buffer) ==
  IF lo >= hi THEN lo
  ELSE LET mid == lo + ((hi - lo) \div 2) IN
       IF strcmpAt(keys[mid].name, buffer) < 0
         THEN lower_bound(keys, mid + 1, hi, buffer)
         ELSE lower_bound(keys, lo, mid, buffer)

\* Config::key(buffer): index of the key in _keys, 0 for nullptr
key(buffer) ==
  LET it == lower_bound(_keys, 1, Len(_keys) + 1, buffer) IN
  IF it /= Len(_keys) + 1
     /\ (_keys[it].name = buffer \/ strcmpAt(_keys[it].name, buffer) = 0)
    THEN it ELSE 0

\* sizeof(MYCILA_CONFIG_KEY_ENABLE_SUFFIX): the characters and the final NUL
ENABLE_SUFFIX == <<"_", "e", "n", "a", "b", "l", "e">>
SizeofEnableSuffix == Len(ENABLE_SUFFIX) + 1

\* the terminating character of a C string, when it shows up among the
\* bytes in front of a name
NUL == "nul"

\* the characters of s up to the first NUL
RECURSIVE UpToNul(_)
UpToNul(s) ==
  IF s = <<>> \/ Head(s) = NUL THEN <<>> ELSE <<Head(s)>> \o UpToNul(Tail(s))

\* the C string that starts `off` characters after the start of name; for
\* off < 0 the read starts in front of the name, in the bytes `before` that
\* happen to precede it in memory
CStrAt(name, off, before) ==
  IF off >= 0 THEN SubSeq(name, off + 1, Len(name))
  ELSE UpToNul(SubSeq(before, Len(before) + off + 1, Len(before)) \o name)

\* Key::isEnableKey (Key.h:36-41):
\*   strcmp(name + len - sizeof(SUFFIX) - 1, SUFFIX) == 0
isEnableKey(name, before) ==
  LET len == strlen(name) IN
  IF len < SizeofEnableSuffix - 1 THEN FALSE
  ELSE strcmp(CStrAt(name, len - SizeofEnableSuffix - 1, before), ENABLE_SUFFIX) = 0

\* sizeof(MYCILA_CONFIG_KEY_PASSWORD_SUFFIX) (Defines.h:38-40)
PASSWORD_SUFFIX == <<"_", "p", "w", "d">>
SizeofPasswordSuffix == Len(PASSWORD_SUFFIX) + 1

\* Key::isPasswordKey (Key.h:29-34):
\*   strcmp(name + len - sizeof(SUFFIX) - 1, SUFFIX) == 0
isPasswordKey(name, before) ==
  LET len == strlen(name) IN
  IF len < SizeofPasswordSuffix - 1 THEN FALSE
  ELSE strcmp(CStrAt(name, len - SizeofPasswordSuffix - 1, before), PASSWORD_SUFFIX) = 0

\* what the two bytes in front of a name literal may be: the read of
\* name[-1], name[-2] is out of bounds, any content is possible
PadChars == {NUL, "_"}
Pads == [1..2 -> PadChars]

\* isEnableKey of the Key whose name is at address a (computed once per
\* address and content of the bytes in front of it)
IsEnableKeyOfNames == [a \in Addr, before \in Pads |-> isEnableKey(Mem[a], before)]
isEnableKeyAt(a, before) == IsEnableKeyOfNames[a, before]

-----------------------------------------------------------------------------
(* Config engine                                                           *)

enabled == _name /= NULL

\* Config::stored (Config.h:138)
stored(st, k) == enabled /\ hasKey(st, Mem[k])

InCache(cache, k) == k \in DOMAIN cache

\* std::map::operator[]= and erase on a map keyed by address
MapPut(m, k, v) == [x \in (DOMAIN m) \cup {k} |-> IF x = k THEN v ELSE m[x]]
MapErase(m, k) == [x \in (DOMAIN m) \ {k} |-> m[x]]
EmptyMap == [x \in {} |-> NoValue]

\* Config::_load<T>(key): the typed load chosen by the default value's kind
_load(st, k, kind) == StorageLoad(st, Mem[k], kind)

\* _get that caches the default when Storage holds nothing for the key
_get_cacheDefault(st, cache, kx) ==
  LET k == _keys[kx] IN
  IF ~enabled THEN [value |-> k.defaultValue, cache |-> cache]
  ELSE IF InCache(cache, k.name) THEN [value |-> cache[k.name], cache |-> cache]
  ELSE LET value == _load(st, k.name, index(k.defaultValue)) IN
       IF value /= NoValue
         THEN [value |-> value, cache |-> MapPut(cache, k.name, value)]
         ELSE [value |-> k.defaultValue, cache |-> MapPut(cache, k.name, k.defaultValue)]

\* Config::_get(key) (Config.h:391-422): the value returned and the cache
\* after the call
_get(st, cache, kx) ==
  LET k == _keys[kx] IN
  IF ~enabled THEN [value |-> k.defaultValue, cache |-> cache]
  ELSE IF InCache(cache, k.name) THEN [value |-> cache[k.name], cache |-> cache]
  ELSE LET value == _load(st, k.name, index(k.defaultValue)) IN
       IF value /= NoValue
         THEN [value |-> value, cache |-> MapPut(cache, k.name, value)]
         ELSE [value |-> k.defaultValue, cache |-> cache]

\* A step of a call that the application can observe: a validator or a
\* callback it registered being invoked with (k, v), or Storage / the cache
\* being changed for k.  r is what the step returned (a validator's verdict,
\* the success of a Storage call; TRUE for steps that return nothing).
Ev(e, k, v, r) == [e |-> e, k |-> k, v |-> v, r |-> r]

\* isDefaulted with the test of keyPersisted not negated
isDefaulted_persisted(keyPersisted, defaultValue, value) ==
  keyPersisted /\ ValueEq(defaultValue, value)

\* "key not there and set to default value" (Config.h:444-447)
isDefaulted(keyPersisted, defaultValue, value) ==
  ~keyPersisted /\ ValueEq(defaultValue, value)

\* validate with the verdict of the global validator not looked at
validate_ignoreGlobal(k, name, value, gvOk, kvOk) ==
  LET evG == IF _globalValidatorCallback THEN <<Ev("globalValidator", k, value, gvOk)>> ELSE <<>>
      evK == IF name \in _validators THEN <<Ev("keyValidator", name, value, kvOk)>> ELSE <<>>
  IN
  IF name \in _validators /\ ~kvOk THEN [ok |-> FALSE, events |-> evG \o evK]
  ELSE [ok |-> TRUE, events |-> evG \o evK]

\* validate with the key's validator asked before the global one
validate_keyFirst(k, name, value, gvOk, kvOk) ==
  LET evG == IF _globalValidatorCallback THEN <<Ev("globalValidator", k, value, gvOk)>> ELSE <<>>
      evK == IF name \in _validators THEN <<Ev("keyValidator", name, value, kvOk)>> ELSE <<>>
  IN
  IF name \in _validators /\ ~kvOk THEN [ok |-> FALSE, events |-> evK]
  ELSE IF _globalValidatorCallback /\ ~gvOk THEN [ok |-> FALSE, events |-> evK \o evG]
  ELSE [ok |-> TRUE, events |-> evK \o evG]

\* the validation stage of _set (Config.h:452-467): the global validator is
\* called with the caller's pointer, then the key's validator, looked up and
\* called with the registered pointer; the second is not called when the first
\* rejects
validate(k, name, value, gvOk, kvOk) ==
  LET evG == IF _globalValidatorCallback THEN <<Ev("globalValidator", k, value, gvOk)>> ELSE <<>>
      evK == IF name \in _validators THEN <<Ev("keyValidator", name, value, kvOk)>> ELSE <<>>
  IN
  IF _globalValidatorCallback /\ ~gvOk THEN [ok |-> FALSE, events |-> evG]
  ELSE IF name \in _validators /\ ~kvOk THEN [ok |-> FALSE, events |-> evG \o evK]
  ELSE [ok |-> TRUE, events |-> evG \o evK]

\* _cache[key] read through std::map::operator[]: the entry, or a
\* default-constructed Value (bool false) when there is none
cacheAt(cache, k) == IF InCache(cache, k) THEN cache[k] ELSE Bool(FALSE)

\* cacheStore that leaves the cache alone
cacheStore_skip(cache, k, value) == cache

\* _cache[key] = std::move(value) (Config.h:477)
cacheStore(cache, k, value) == MapPut(cache, k, value)

\* notifyChange that does not look at fireChangeCallback
notifyChange_always(fireChangeCallback, k, value) ==
  IF _changeCallback THEN <<Ev("change", k, value, TRUE)>> ELSE <<>>

\* the change notification of _set (Config.h:480-484)
notifyChange(fireChangeCallback, k, value) ==
  IF fireChangeCallback /\ _changeCallback
    THEN <<Ev("change", k, value, TRUE)>> ELSE <<>>

\* _set that updates the cache before it looks at the result of the write
_set_cacheBeforeWrite(st, cache, k, value, fireChangeCallback, gvOk, kvOk, ioOk) ==
  LET kx == key(k)
      out(res, s, c, ev) == [result |-> res, st |-> s, cache |-> c, events |-> ev]
  IN
  IF ~enabled THEN out("ERR_DISABLED", st, cache, <<>>)
  ELSE IF kx = 0 THEN out("ERR_UNKNOWN_KEY", st, cache, <<>>)
  ELSE IF index(value) /= index(_keys[kx].defaultValue)
    THEN out("ERR_INVALID_TYPE", st, cache, <<>>)
  ELSE
  LET kk == _keys[kx]
      keyPersisted == stored(st, k)
      val == validate(k, kk.name, value, gvOk, kvOk)
      w == StorageStore(st, Mem[k], value, ioOk)
      evW == <<Ev("store", k, value, w.ret)>>
      cache2 == cacheStore(cache, k, value)
      evC == <<Ev("cache", k, value, TRUE)>>
  IN
  IF isDefaulted(keyPersisted, kk.defaultValue, value)
    THEN out("DEFAULTED", st, cache, <<>>)
  ELSE IF ~val.ok
    THEN out("ERR_INVALID_VALUE", st, cache, val.events)
  ELSE IF ~w.ret
    THEN out("ERR_FAIL_ON_WRITE", w.s, cache2, val.events \o evW)
  ELSE out("PERSISTED", w.s, cache2,
           val.events \o evW \o evC
             \o notifyChange(fireChangeCallback, k, cacheAt(cache2, k)))

\* Config::_set(key, value, fireChangeCallback) (Config.h:424-487).
\* gvOk, kvOk: what the global / the key's validator returns if invoked;
\* ioOk: whether the physical write succeeds.
\* Result: the Status returned, Storage and cache after the call, and the
\* steps taken.
_set(st, cache, k, value, fireChangeCallback, gvOk, kvOk, ioOk) ==
  LET kx == key(k)
      out(res, s, c, ev) == [result |-> res, st |-> s, cache |-> c, events |-> ev]
  IN
  IF ~enabled THEN out("ERR_DISABLED", st, cache, <<>>)
  ELSE IF kx = 0 THEN out("ERR_UNKNOWN_KEY", st, cache, <<>>)
  ELSE IF index(value) /= index(_keys[kx].defaultValue)
    THEN out("ERR_INVALID_TYPE", st, cache, <<>>)
  ELSE
  LET kk == _keys[kx]
      keyPersisted == stored(st, k)
      val == validate(k, kk.name, value, gvOk, kvOk)
      w == StorageStore(st, Mem[k], value, ioOk)
      evW == <<Ev("store", k, value, w.ret)>>
      cache2 == cacheStore(cache, k, value)
      evC == <<Ev("cache", k, value, TRUE)>>
  IN
  IF isDefaulted(keyPersisted, kk.defaultValue, value)
    THEN out("DEFAULTED", st, cache, <<>>)
  ELSE IF ~val.ok
    THEN out("ERR_INVALID_VALUE", st, cache, val.events)
  ELSE IF ~w.ret
    THEN out("ERR_FAIL_ON_WRITE", w.s, cache, val.events \o evW)
  ELSE out("PERSISTED", w.s, cache2,
           val.events \o evW \o evC
             \o notifyChange(fireChangeCallback, k, cacheAt(cache2, k)))

\* unset that notifies before it looks at the result of the removal
unset_notifyFirst(st, cache, k, fireChangeCallback, ioOk) ==
  LET kx == key(k)
      out(res, s, c, ev) == [result |-> res, st |-> s, cache |-> c, events |-> ev]
      r == StorageRemove(st, Mem[k], ioOk)
      evR == <<Ev("remove", k, NoValue, r.ret)>>
  IN
  IF ~enabled THEN out("ERR_DISABLED", st, cache, <<>>)
  ELSE IF kx = 0 THEN out("ERR_UNKNOWN_KEY", st, cache, <<>>)
  ELSE IF ~r.ret
    THEN out("ERR_FAIL_ON_REMOVE", r.s, cache,
             evR \o notifyChange(fireChangeCallback, k, _keys[kx].defaultValue))
  ELSE out("REMOVED", r.s, MapErase(cache, k),
           evR \o <<Ev("erase", k, NoValue, TRUE)>>
             \o notifyChange(fireChangeCallback, k, _keys[kx].defaultValue))

\* unset that does not look at enabled()
unset_whileDisabled(st, cache, k, fireChangeCallback, ioOk) ==
  LET kx == key(k)
      out(res, s, c, ev) == [result |-> res, st |-> s, cache |-> c, events |-> ev]
      r == StorageRemove(st, Mem[k], ioOk)
      evR == <<Ev("remove", k, NoValue, r.ret)>>
  IN
  IF kx = 0 THEN out("ERR_UNKNOWN_KEY", st, cache, <<>>)
  ELSE IF ~r.ret THEN out("ERR_FAIL_ON_REMOVE", r.s, cache, evR)
  ELSE out("REMOVED", r.s, MapErase(cache, k),
           evR \o <<Ev("erase", k, NoValue, TRUE)>>
             \o notifyChange(fireChangeCallback, k, _keys[kx].defaultValue))

\* unset that does not erase the cache entry
unset_noErase(st, cache, k, fireChangeCallback, ioOk) ==
  LET kx == key(k)
      out(res, s, c, ev) == [result |-> res, st |-> s, cache |-> c, events |-> ev]
      r == StorageRemove(st, Mem[k], ioOk)
      evR == <<Ev("remove", k, NoValue, r.ret)>>
  IN
  IF ~enabled THEN out("ERR_DISABLED", st, cache, <<>>)
  ELSE IF kx = 0 THEN out("ERR_UNKNOWN_KEY", st, cache, <<>>)
  ELSE IF ~r.ret THEN out("ERR_FAIL_ON_REMOVE", r.s, cache, evR)
  ELSE out("REMOVED", r.s, cache,
           evR \o notifyChange(fireChangeCallback, k, _keys[kx].defaultValue))

\* Config::unset(key, fireChangeCallback) (Config.h:195-222)
unset(st, cache, k, fireChangeCallback, ioOk) ==
  LET kx == key(k)
      out(res, s, c, ev) == [result |-> res, st |-> s, cache |-> c, events |-> ev]
      r == StorageRemove(st, Mem[k], ioOk)
      evR == <<Ev("remove", k, NoValue, r.ret)>>
  IN
  IF ~enabled THEN out("ERR_DISABLED", st, cache, <<>>)
  ELSE IF kx = 0 THEN out("ERR_UNKNOWN_KEY", st, cache, <<>>)
  ELSE IF ~r.ret THEN out("ERR_FAIL_ON_REMOVE", r.s, cache, evR)
  ELSE out("REMOVED", r.s, MapErase(cache, k),
           evR \o <<Ev("erase", k, NoValue, TRUE)>>
             \o notifyChange(fireChangeCallback, k, _keys[kx].defaultValue))

\* isStorageUpdated that is the success test of Result (operator bool)
isStorageUpdated_success(status) == status \in {"PERSISTED", "DEFAULTED", "REMOVED"}

\* Result::isStorageUpdated (Result.h:32)
isStorageUpdated(status) == status \in {"PERSISTED", "REMOVED"}

\* One loop of Config::set(std::map<const char*, Value>, bool)
\* (Config.h:167-169 and 171-173): the keys of the registry from index i on, in
\* registry order, that are in `settings` (looked up by address) and whose
\* isEnableKey() is `enablePass`.
\* acc: Storage, cache, steps and `updates` so far; env[k]: what the
\* environment decides during the _set of k; before[k]: the bytes in front
\* of the name k.
RECURSIVE setLoop(_, _, _, _, _, _, _)
setLoop(acc, i, enablePass, settings, fireChangeCallback, env, before) ==
  IF i > Len(_keys) THEN acc
  ELSE
    LET k == _keys[i].name IN
    IF isEnableKeyAt(k, before[k]) = enablePass /\ k \in DOMAIN settings
      THEN LET r == _set(acc.st, acc.cache, k, settings[k], fireChangeCallback,
                         env[k] /= "gvReject", env[k] /= "kvReject", env[k] /= "ioFail")
           IN setLoop([st |-> r.st, cache |-> r.cache,
                       events |-> acc.events \o r.events,
                       updates |-> acc.updates \/ isStorageUpdated(r.result)],
                      i + 1, enablePass, settings, fireChangeCallback, env, before)
      ELSE setLoop(acc, i + 1, enablePass, settings, fireChangeCallback, env, before)

\* Config::set(std::map<const char*, Value>, bool) (Config.h:164-175)
setAll(st, cache, settings, fireChangeCallback, env, before) ==
  LET first == setLoop([st |-> st, cache |-> cache, events |-> <<>>, updates |-> FALSE],
                       1, FALSE, settings, fireChangeCallback, env, before)
  IN setLoop(first, 1, TRUE, settings, fireChangeCallback, env, before)

-----------------------------------------------------------------------------
(* The application: the keys it declares before begin                      *)

\* the declarations of the application, in the order of its configure calls
Decls == << Key(A_PWD, StrV(<<>>)), Key(A_ENABLE, Bool(FALSE)) >>

RECURSIVE ConfigureAll(_, _)
ConfigureAll(c, decls) ==
  IF decls = <<>> THEN c
  ELSE ConfigureAll(configure(c, Head(decls).name, Head(decls).defaultValue, FALSE),
                    Tail(decls))

\* the name given to begin
CONFIG_NAME == "&CONFIG"

\* the keys the application installs or removes a validator for
ValidatedNames == {A_PWD, A_NOKEY}

-----------------------------------------------------------------------------
(* State machine                                                           *)

\* the addresses of the registered names
Registered == {a \in Addr : \E i \in 1..Len(_keys) : _keys[i].name = a}

\* the last call of the application: its arguments (key, value, flag; the map
\* of a batch call), what it returned and, for unset, whether the key was
\* stored (had) and cached (hit) when it was called
Call(op, k, value, flag, result, had, hit) ==
  [op |-> op, key |-> k, value |-> value, flag |-> flag, result |-> result,
   had |-> had, hit |-> hit, batch |-> EmptyMap]

CallBatch(op, settings, flag, result) ==
  [op |-> op, key |-> NULL, value |-> NoValue, flag |-> flag, result |-> result,
   had |-> FALSE, hit |-> FALSE, batch |-> settings]

\* after construction and the configure calls of the application, on a
\* device whose NVS partition is empty
Init ==
  /\ _keys = ConfigureAll([keys |-> <<>>, validators |-> {}], Decls).keys
  /\ _validators = ConfigureAll([keys |-> <<>>, validators |-> {}], Decls).validators
  /\ _name = NULL
  /\ _cache = EmptyMap
  /\ _globalValidatorCallback = FALSE
  /\ _changeCallback = FALSE
  /\ _restoreCallback = FALSE
  /\ calls = <<>>
  /\ storage = [handle |-> FALSE, items |-> [n \in StoreNames |-> Absent]]
  /\ last = Call("new", NULL, NoValue, FALSE, "", FALSE, FALSE)
  /\ events = <<>>

\* preload that caches an empty string for a key Storage has no string for
RECURSIVE preloadFrom_cacheAbsent(_, _, _)
preloadFrom_cacheAbsent(st, cache, i) ==
  IF i > Len(_keys) THEN cache
  ELSE LET value == StorageLoad(st, Mem[_keys[i].name], "Str") IN
       preloadFrom_cacheAbsent(st,
         MapPut(cache, _keys[i].name, IF value /= NoValue THEN value ELSE StrV(<<>>)),
         i + 1)

\* the preload loop of begin (Config.h:69-78): loadString of every key
RECURSIVE preloadFrom(_, _, _)
preloadFrom(st, cache, i) ==
  IF i > Len(_keys) THEN cache
  ELSE LET value == StorageLoad(st, Mem[_keys[i].name], "Str") IN
       preloadFrom(st, IF value /= NoValue THEN MapPut(cache, _keys[i].name, value) ELSE cache,
                   i + 1)

\* In the actions the result of the call is bound with \E r \in {...}: it is
\* computed once and then used for every variable it determines.

\* Config::begin(name, preload) (Config.h:63-81)
Begin(preload, ok) ==
  \E b \in {StorageBegin(storage, ok)} :
  /\ storage' = b.s
  /\ IF ~b.ret
       THEN UNCHANGED <<_cache, _name>>
       ELSE /\ _cache' = IF preload THEN preloadFrom(b.s, _cache, 1) ELSE _cache
            /\ _name' = CONFIG_NAME
  /\ last' = Call("begin", NULL, NoValue, preload, IF b.ret THEN "true" ELSE "false", FALSE, FALSE)
  /\ events' = <<>>
  /\ UNCHANGED <<calls, _restoreCallback, _keys, _validators, _globalValidatorCallback, _changeCallback>>

\* end that closes Storage and keeps the cache
End_keepCache ==
  /\ _name' = NULL
  /\ storage' = StorageEnd(storage)
  /\ _cache' = _cache
  /\ last' = Call("end", NULL, NoValue, FALSE, "", FALSE, FALSE)
  /\ events' = <<>>
  /\ UNCHANGED <<calls, _restoreCallback, _keys, _validators, _globalValidatorCallback, _changeCallback>>

\* Config::end (Config.h:83-87)
End ==
  /\ _name' = NULL
  /\ storage' = StorageEnd(storage)
  /\ _cache' = EmptyMap
  /\ last' = Call("end", NULL, NoValue, FALSE, "", FALSE, FALSE)
  /\ events' = <<>>
  /\ UNCHANGED <<calls, _restoreCallback, _keys, _validators, _globalValidatorCallback, _changeCallback>>

\* Config::listen(ChangeCallback) (Config.h:96)
Listen(callback) ==
  /\ _changeCallback' = callback
  /\ last' = Call("listen", NULL, NoValue, callback, "", FALSE, FALSE)
  /\ events' = <<>>
  /\ UNCHANGED <<calls, _restoreCallback, _keys, _name, _cache, _validators, _globalValidatorCallback, storage>>

\* Config::setValidator(callback) (Config.h:102-111)
SetGlobalValidator(callback) ==
  /\ _globalValidatorCallback' = callback
  /\ last' = Call("setValidator", NULL, NoValue, callback, "true", FALSE, FALSE)
  /\ events' = <<>>
  /\ UNCHANGED <<calls, _restoreCallback, _keys, _name, _cache, _validators, _changeCallback, storage>>

\* Config::setValidator(key, callback) (Config.h:114-132)
SetValidator(k, callback) ==
  /\ IF key(k) = 0
       THEN UNCHANGED _validators
       ELSE _validators' = IF callback THEN _validators \cup {k} ELSE _validators \ {k}
  /\ last' = Call("setValidator", k, NoValue, callback,
                  IF key(k) = 0 THEN "false" ELSE "true", FALSE, FALSE)
  /\ events' = <<>>
  /\ UNCHANGED <<calls, _restoreCallback, _keys, _name, _cache, _globalValidatorCallback, _changeCallback, storage>>

\* get that writes the default back to Storage when it finds nothing stored
Get_writeBack(k) ==
  \E kx \in {key(k)} :
  /\ IF kx = 0
       THEN /\ UNCHANGED <<_cache, storage>>
            /\ last' = Call("get", k, NoValue, FALSE, "throw", FALSE, FALSE)
       ELSE \E r \in {_get(storage, _cache, kx)} :
            /\ _cache' = r.cache
            /\ storage' = IF stored(storage, k) THEN storage
                           ELSE StorageStore(storage, Mem[k], r.value, TRUE).s
            /\ last' = Call("get", k, r.value, FALSE, "value", FALSE, FALSE)
  /\ events' = <<>>
  /\ UNCHANGED <<calls, _restoreCallback, _keys, _name, _validators, _globalValidatorCallback, _changeCallback>>

\* Config::get(key) (Config.h:181-191)
Get(k) ==
  \E kx \in {key(k)} :
  /\ IF kx = 0
       THEN /\ UNCHANGED _cache
            /\ last' = Call("get", k, NoValue, FALSE, "throw", FALSE, FALSE)
       ELSE \E r \in {_get(storage, _cache, kx)} :
            /\ _cache' = r.cache
            /\ last' = Call("get", k, r.value, FALSE, "value", FALSE, FALSE)
  /\ events' = <<>>
  /\ UNCHANGED <<calls, _restoreCallback, _keys, _name, _validators, _globalValidatorCallback, _changeCallback, storage>>

\* Config::set(key, value, fireChangeCallback) (Config.h:157)
Set(k, value, fire, gvOk, kvOk, ioOk) ==
  \E r \in {_set(storage, _cache, k, value, fire, gvOk, kvOk, ioOk)} :
  /\ storage' = r.st
  /\ _cache' = r.cache
  /\ events' = r.events
  /\ last' = Call("set", k, value, fire, r.result, FALSE, FALSE)
  /\ UNCHANGED <<calls, _restoreCallback, _keys, _name, _validators, _globalValidatorCallback, _changeCallback>>

\* Config::unset(key, fireChangeCallback)
Unset(k, fire, ioOk) ==
  \E r \in {unset(storage, _cache, k, fire, ioOk)} :
  /\ storage' = r.st
  /\ _cache' = r.cache
  /\ events' = r.events
  /\ last' = Call("unset", k, NoValue, fire, r.result, stored(storage, k), InCache(_cache, k))
  /\ UNCHANGED <<calls, _restoreCallback, _keys, _name, _validators, _globalValidatorCallback, _changeCallback>>

\* clear that forgets to empty the cache
Clear_keepCache(ioOk) ==
  \E r \in {StorageRemoveAll(storage, ioOk)} :
  /\ storage' = r.s
  /\ _cache' = _cache
  /\ events' = <<Ev("removeAll", NULL, NoValue, r.ret)>>
  /\ last' = Call("clear", NULL, NoValue, FALSE, "",
                  \E n \in StoreNames : hasKey(storage, n), _cache /= EmptyMap)
  /\ UNCHANGED <<calls, _restoreCallback, _keys, _name, _validators, _globalValidatorCallback, _changeCallback>>

\* Config::clear (Config.h:225-228): the result of removeAll is not looked at
Clear(ioOk) ==
  \E r \in {StorageRemoveAll(storage, ioOk)} :
  /\ storage' = r.s
  /\ _cache' = EmptyMap
  /\ events' = <<Ev("removeAll", NULL, NoValue, r.ret)>>
  /\ last' = Call("clear", NULL, NoValue, FALSE, "",
                  \E n \in StoreNames : hasKey(storage, n), _cache /= EmptyMap)
  /\ UNCHANGED <<calls, _restoreCallback, _keys, _name, _validators, _globalValidatorCallback, _changeCallback>>

\* What the environment decides during one _set: the validators are
\* application code and the physical write is I/O.  _set returns at the first
\* step that fails, so one call meets at most one of: the global validator
\* rejects, the key's validator rejects, the write fails.
Outcomes(k) ==
  {"ok", "ioFail"}
    \cup (IF _globalValidatorCallback THEN {"gvReject"} ELSE {})
    \cup (IF k \in _validators THEN {"kvReject"} ELSE {})

Next ==
  \/ \E preload \in BOOLEAN, ok \in BOOLEAN : Begin(preload, ok)
  \/ End
  \/ \E callback \in BOOLEAN : Listen(callback)
  \/ \E callback \in BOOLEAN : SetGlobalValidator(callback)
  \/ \E k \in ValidatedNames, callback \in BOOLEAN : SetValidator(k, callback)
  \/ \E k \in CallNames : Get(k)
  \/ \E k \in CallNames, fire \in BOOLEAN :
       \E value \in ValuesFor(k), o \in Outcomes(k) :
          Set(k, value, fire, o /= "gvReject", o /= "kvReject", o /= "ioFail")
  \/ \E k \in CallNames, fire \in BOOLEAN, ioOk \in BOOLEAN : Unset(k, fire, ioOk)
  \/ \E ioOk \in BOOLEAN : Clear(ioOk)

Spec == Init /\ [][Next]_vars

-----------------------------------------------------------------------------
(* Batch calls                                                             *)

\* the values a batch holds for the name at address k
BatchValuesFor(k) ==
  CASE k = A_ENABLE -> {Bool(FALSE), Bool(TRUE)}
    [] k = A_PWD    -> {StrV(<<>>), StrV(ABC)}
    [] OTHER        -> {StrV(ABC)}

\* the maps over the set D of names
BatchesOver(D) == {f \in [D -> Values] : \A k \in D : f[k] \in BatchValuesFor(k)}

\* the maps the application passes to the batch set: every map over declared
\* names, and the maps over all its names that also hold an undeclared name
Batches ==
  UNION {BatchesOver(D) : D \in SUBSET {A_ENABLE, A_PWD}}
    \cup BatchesOver({A_ENABLE, A_PWD, A_NOKEY})

\* isEnableKey reads name[len - sizeof(SUFFIX) - 1 ..]: for a name of 7 or 8
\* characters the read starts 2 or 1 bytes in front of the name, and the
\* content of these bytes is not determined by the program.  ReadPads: the
\* contents of the two bytes in front of a name that differ in a byte that
\* isEnableKey reads for some declared name.
OutOfBounds(name) ==
  IF strlen(name) < SizeofEnableSuffix - 1 THEN 0
  ELSE IF strlen(name) - SizeofEnableSuffix - 1 >= 0 THEN 0
  ELSE 0 - (strlen(name) - SizeofEnableSuffix - 1)

ReadPads ==
  LET most == CHOOSE n \in 0..2 :
                /\ \E i \in 1..Len(Decls) : OutOfBounds(Mem[Decls[i].name]) = n
                /\ \A i \in 1..Len(Decls) : OutOfBounds(Mem[Decls[i].name]) <= n
  IN {p \in Pads : \A i \in 1..2 : i <= 2 - most => p[i] = NUL}

\* What the environment decides during the _set of k in a batch: something
\* only when that _set gets as far as the validators (the engine is Open, k
\* is in the batch and the value is not the default of a key that is not
\* stored; a batch holds values of the declared kind).
BatchOutcomes(k, settings) ==
  IF /\ enabled
     /\ k \in DOMAIN settings
     /\ ~isDefaulted(stored(storage, k), _keys[key(k)].defaultValue, settings[k])
    THEN Outcomes(k) ELSE {"ok"}

\* Config::set(std::map<const char*, Value>, bool fireChangeCallback)
SetAll(settings, fire, env, before) ==
  \E r \in {setAll(storage, _cache, settings, fire, env, before)} :
  /\ storage' = r.st
  /\ _cache' = r.cache
  /\ events' = r.events
  /\ last' = CallBatch("setAll", settings, fire, IF r.updates THEN "true" ELSE "false")
  /\ UNCHANGED <<calls, _restoreCallback, _keys, _name, _validators, _globalValidatorCallback, _changeCallback>>

NextBatch ==
  \/ \E preload \in BOOLEAN, ok \in BOOLEAN : Begin(preload, ok)
  \/ End
  \/ \E callback \in BOOLEAN : Listen(callback)
  \/ \E callback \in BOOLEAN : SetValidator(A_PWD, callback)
  \/ \E ioOk \in BOOLEAN : Clear(ioOk)
  \/ \E settings \in Batches, fire \in BOOLEAN, pad \in ReadPads :
       \E oEnable \in BatchOutcomes(A_ENABLE, settings),
          oPwd \in BatchOutcomes(A_PWD, settings) :
         SetAll(settings, fire,
                [k \in Addr |-> IF k = A_ENABLE THEN oEnable
                                ELSE IF k = A_PWD THEN oPwd ELSE "ok"],
                [k \in Addr |-> pad])

SpecBatch == Init /\ [][NextBatch]_vars

-----------------------------------------------------------------------------
(* Backup and restore (Config.h:239-292)                                   *)

LF == "\n"
CR == "\r"
EQ == "="

\* the text written to a Print stream by a sequence of steps
RECURSIVE Text(_)
Text(evs) ==
  IF evs = <<>> THEN <<>>
  ELSE (IF Head(evs).e = "print" THEN Head(evs).v.s ELSE <<>>) \o Text(Tail(evs))

\* emits that does not look at Storage
emits_always(st, k, includeDefaults) == TRUE

\* the test of backup: `includeDefaults || stored(key.name)` (Config.h:243)
emits(st, k, includeDefaults) == includeDefaults \/ stored(st, k)

\* Config::backup(out, includeDefaults) (Config.h:241-251) from the key at
\* index i on: the four out.print calls per key, and the cache (_get fills
\* it on demand)
RECURSIVE backup(_, _, _, _)
backup(st, cache, includeDefaults, i) ==
  IF i > Len(_keys) THEN [cache |-> cache, events |-> <<>>]
  ELSE
    LET k == _keys[i].name IN
    IF emits(st, k, includeDefaults)
      THEN LET g    == _get(st, cache, i)
               rest == backup(st, g.cache, includeDefaults, i + 1)
           IN [cache |-> rest.cache,
               events |-> << Ev("print", k, StrV(Mem[k]), TRUE),
                             Ev("print", k, StrV(<<EQ>>), TRUE),
                             Ev("print", k, StrV(toString(g.value)), TRUE),
                             Ev("print", k, StrV(<<LF>>), TRUE) >> \o rest.events]
      ELSE backup(st, cache, includeDefaults, i + 1)

\* strstr(haystack, needle): the position of the first occurrence, 0 for NULL
strstr(haystack, needle) ==
  LET hits == {i \in 1..(Len(haystack) - Len(needle) + 1) :
                 SubSeq(haystack, i, i + Len(needle) - 1) = needle}
  IN IF hits = {} THEN 0 ELSE CHOOSE i \in hits : \A j \in hits : i <= j

\* strchr(s + (from - 1), c): the position of the first c at or after from, 0
\* for NULL
strchr(s, from, c) ==
  LET hits == {i \in from..Len(s) : s[i] = c}
  IN IF hits = {} THEN 0 ELSE CHOOSE i \in hits : \A j \in hits : i <= j

\* What restore(const char*) reads for one key (Config.h:257-269):
\* present: the name occurs in data and its first occurrence is followed by
\* '='; ended: a CR, or else an LF, follows the '='; raw: the characters
\* between the '=' and that terminator.
FieldOf(data, name) ==
  LET start == strstr(data, name)
      eq    == start + Len(name)
      from  == eq + 1
      cr    == strchr(data, from, CR)
      end   == IF cr /= 0 THEN cr ELSE strchr(data, from, LF)
  IN IF start = 0 \/ eq > Len(data) \/ data[eq] /= EQ
       THEN [present |-> FALSE, ended |-> FALSE, raw |-> <<>>]
     ELSE IF end = 0
       THEN [present |-> TRUE, ended |-> FALSE, raw |-> <<>>]
     ELSE [present |-> TRUE, ended |-> TRUE, raw |-> SubSeq(data, from, end - 1)]

\* the parsing loop that skips a key whose value does not parse
RECURSIVE restoreParse_skipInvalid(_, _, _)
restoreParse_skipInvalid(data, i, settings) ==
  IF i > Len(_keys) THEN [ok |-> TRUE, settings |-> settings]
  ELSE
    LET k == _keys[i]
        f == FieldOf(data, Mem[k.name])
        value == fromString(f.raw, k.defaultValue)
    IN
    IF ~f.present THEN restoreParse_skipInvalid(data, i + 1, settings)
    ELSE IF ~f.ended THEN [ok |-> FALSE, settings |-> EmptyMap]
    ELSE IF value = NoValue THEN restoreParse_skipInvalid(data, i + 1, settings)
    ELSE restoreParse_skipInvalid(data, i + 1, MapPut(settings, k.name, value))

\* the parsing loop of restore(const char*) (Config.h:255-278): the map handed
\* to restore(std::map), or the failure
RECURSIVE restoreParse(_, _, _)
restoreParse(data, i, settings) ==
  IF i > Len(_keys) THEN [ok |-> TRUE, settings |-> settings]
  ELSE
    LET k == _keys[i]
        f == FieldOf(data, Mem[k.name])
        value == fromString(f.raw, k.defaultValue)
    IN
    IF ~f.present THEN restoreParse(data, i + 1, settings)
    ELSE IF ~f.ended THEN [ok |-> FALSE, settings |-> EmptyMap]
    ELSE IF value = NoValue THEN [ok |-> FALSE, settings |-> EmptyMap]
    ELSE restoreParse(data, i + 1, MapPut(settings, k.name, value))

\* Config::restore(std::map<const char*, Value>) (Config.h:282-292): the batch
\* set without change notification, then the restore callback when the batch
\* reported an update
restoreMap(st, cache, settings, env, before) ==
  LET r == setAll(st, cache, settings, FALSE, env, before) IN
  [restored |-> r.updates, st |-> r.st, cache |-> r.cache,
   events |-> r.events \o (IF r.updates /\ _restoreCallback
                             THEN <<Ev("restored", NULL, NoValue, TRUE)>> ELSE <<>>)]

\* Config::restore(const char* data) (Config.h:253-280)
restore(st, cache, data, env, before) ==
  LET p == restoreParse(data, 1, EmptyMap) IN
  IF ~p.ok THEN [restored |-> FALSE, st |-> st, cache |-> cache, events |-> <<>>]
  ELSE restoreMap(st, cache, p.settings, env, before)

\* The application of this part: two string settings, the name of one being
\* the end of the name of the other, and a numeric setting.
DeclsBackup == << Key(A_SHORT, StrV(<<>>)), Key(A_PORT, I32(0)), Key(A_AP_PWD, StrV(<<>>)) >>

BackupNames == {A_AP_PWD, A_PORT, A_SHORT}

\* the values it sets
BackupValuesFor(k) == IF k = A_PORT THEN {I32(0), I32(42)} ELSE {StrV(<<>>), StrV(ABC)}

\* name=value\n
Line(name, value) == name \o <<EQ>> \o value \o <<LF>>

\* the texts it gives to restore, besides backups: nothing; one field; a
\* number followed by a letter, alone and after a field of a key that sorts
\* before it; a last line without terminator
Texts ==
  { <<>>,
    Line(PORT, <<"4", "2">>),
    Line(PORT, <<"4", "x">>),
    Line(AP_PWD, ABC) \o Line(PORT, <<"4", "x">>),
    Line(AP_PWD, ABC) \o PORT \o <<EQ, "4", "2">> }

\* no name of this application is long enough for isEnableKey to read in
\* front of it: the bytes there are never looked at
NoPads == [k \in Addr |-> [i \in 1..2 |-> NUL]]

InitBackup ==
  /\ _keys = ConfigureAll([keys |-> <<>>, validators |-> {}], DeclsBackup).keys
  /\ _validators = ConfigureAll([keys |-> <<>>, validators |-> {}], DeclsBackup).validators
  /\ _name = NULL
  /\ _cache = EmptyMap
  /\ _globalValidatorCallback = FALSE
  /\ _changeCallback = FALSE
  /\ _restoreCallback = FALSE
  /\ calls = <<>>
  /\ storage = [handle |-> FALSE, items |-> [n \in StoreNames |-> Absent]]
  /\ last = Call("new", NULL, NoValue, FALSE, "", FALSE, FALSE)
  /\ events = <<>>

\* Config::listen(RestoredCallback) (Config.h:98-99)
ListenRestored(callback) ==
  /\ _restoreCallback' = callback
  /\ last' = Call("listenRestored", NULL, NoValue, callback, "", FALSE, FALSE)
  /\ events' = <<>>
  /\ UNCHANGED <<calls, _keys, _name, _cache, _validators, _globalValidatorCallback,
                 _changeCallback, storage>>

\* Config::backup(out, includeDefaults)
Backup(includeDefaults) ==
  \E r \in {backup(storage, _cache, includeDefaults, 1)} :
  /\ _cache' = r.cache
  /\ events' = r.events
  /\ last' = Call("backup", NULL, NoValue, includeDefaults, "", FALSE, FALSE)
  /\ UNCHANGED <<calls, _restoreCallback, _keys, _name, _validators, _globalValidatorCallback,
                 _changeCallback, storage>>

\* Config::restore(const char* data)
Restore(data, env, before) ==
  \E r \in {restore(storage, _cache, data, env, before)} :
  /\ storage' = r.st
  /\ _cache' = r.cache
  /\ events' = r.events
  /\ last' = Call("restore", NULL, StrV(data), FALSE,
                  IF r.restored THEN "true" ELSE "false", FALSE, FALSE)
  /\ UNCHANGED <<calls, _restoreCallback, _keys, _name, _validators, _globalValidatorCallback,
                 _changeCallback>>

\* the text of a backup of the current state
BackupNow(includeDefaults) == Text(backup(storage, _cache, includeDefaults, 1).events)

\* what the environment decides during the _set calls of a restore: which
\* physical writes fail (no validator is installed by this application)
RestoreEnvs == [Addr -> {"ok"}] \cup {[k \in Addr |-> IF k = a THEN "ioFail" ELSE "ok"] : a \in BackupNames}

NextBackup ==
  \/ \E preload \in BOOLEAN, ok \in BOOLEAN : Begin(preload, ok)
  \/ End
  \/ \E callback \in BOOLEAN : Listen(callback)
  \/ \E callback \in BOOLEAN : ListenRestored(callback)
  \/ \E k \in BackupNames, ioOk \in BOOLEAN :
       \E value \in BackupValuesFor(k) : Set(k, value, TRUE, TRUE, TRUE, ioOk)
  \/ \E ioOk \in BOOLEAN : Clear(ioOk)
  \/ \E includeDefaults \in BOOLEAN : Backup(includeDefaults)
  \/ \E data \in Texts \cup {BackupNow(TRUE), BackupNow(FALSE)}, env \in RestoreEnvs :
       Restore(data, env, NoPads)

SpecBackup == InitBackup /\ [][NextBackup]_vars

-----------------------------------------------------------------------------
(* Migration (Migration.h)                                                 *)

\* the transforms the application gives to migrate<FROM>
TransformsFor(FROM) ==
  CASE FROM = "int32_t" -> {"twice", "drop", "text"}
    [] FROM = "Str"     -> {"parse", "same", "drop"}
    [] OTHER            -> {"same", "drop"}

\* what a transform returns for the loaded value x: twice the number; the
\* number the text reads as, or nothing; x itself; nothing; a text
Apply(f, x) ==
  CASE f = "twice" -> I32(2 * x.n)
    [] f = "parse" -> fromString(x.s, I32(0))
    [] f = "same"  -> x
    [] f = "text"  -> StrV(ABC)
    [] OTHER       -> NoValue

\* Migration::_tryload<FROM>(key) (Migration.h:263-294)
_tryload(st, k, FROM) == StorageLoad(st, Mem[k], FROM)

\* migrate that writes the transformed value before it checks its kind
migrate_storeBeforeCheck(st, k, FROM, f, ioOk) ==
  LET kx == key(k)
      out(res, s, v, ev) == [result |-> res, st |-> s, migrated |-> v, events |-> ev]
      value    == _tryload(st, k, FROM)
      evL      == <<Ev("load", k, value, value /= NoValue)>>
      migrated == Apply(f, value)
      evT      == <<Ev("transform", k, migrated, TRUE)>>
      rm       == StorageRemove(st, Mem[k], ioOk)
      w        == StorageStore(st, Mem[k], migrated, ioOk)
  IN
  IF kx = 0 THEN out("ERR_UNKNOWN_KEY", st, NoValue, <<>>)
  ELSE IF value = NoValue THEN out("ERR_UNKNOWN_KEY", st, NoValue, evL)
  ELSE IF migrated = NoValue
    THEN out("REMOVED", rm.s, NoValue, evL \o evT \o <<Ev("remove", k, NoValue, rm.ret)>>)
  ELSE IF index(_keys[kx].defaultValue) /= index(migrated)
    THEN out("ERR_INVALID_TYPE", w.s, migrated, evL \o evT)
  ELSE out("PERSISTED", w.s, migrated, evL \o evT \o <<Ev("store", k, migrated, w.ret)>>)

\* Migration::migrate<FROM>(key, transform) (Migration.h:22-59).  The results
\* of storage().remove and of _store are not looked at.
migrate(st, k, FROM, f, ioOk) ==
  LET kx == key(k)
      out(res, s, v, ev) == [result |-> res, st |-> s, migrated |-> v, events |-> ev]
      value    == _tryload(st, k, FROM)
      evL      == <<Ev("load", k, value, value /= NoValue)>>
      migrated == Apply(f, value)
      evT      == <<Ev("transform", k, migrated, TRUE)>>
      rm       == StorageRemove(st, Mem[k], ioOk)
      w        == StorageStore(st, Mem[k], migrated, ioOk)
  IN
  IF kx = 0 THEN out("ERR_UNKNOWN_KEY", st, NoValue, <<>>)
  ELSE IF value = NoValue THEN out("ERR_UNKNOWN_KEY", st, NoValue, evL)
  ELSE IF migrated = NoValue
    THEN out("REMOVED", rm.s, NoValue, evL \o evT \o <<Ev("remove", k, NoValue, rm.ret)>>)
  ELSE IF index(_keys[kx].defaultValue) /= index(migrated)
    THEN out("ERR_INVALID_TYPE", st, migrated, evL \o evT)
  ELSE out("PERSISTED", w.s, migrated, evL \o evT \o <<Ev("store", k, migrated, w.ret)>>)

\* storeTyped that writes the text of the value as a string entry
storeTyped_asString(st, name, converted, ok) ==
  StorageStore(st, name, StrV(toString(converted)), ok)

\* storage.storeBool .. storeDouble of the converted value
\* (Migration.h:97, 110, 123, ...)
storeTyped(st, name, converted, ok) == StorageStore(st, name, converted, ok)

\* the loop of migrateFromString that stops at the first key that fails
RECURSIVE migrateFromString_abortOnError(_, _, _)
migrateFromString_abortOnError(acc, i, env) ==
  IF i > Len(_keys) \/ acc.errors > 0 THEN acc
  ELSE
    LET k         == _keys[i]
        value     == StorageLoad(acc.st, Mem[k.name], "Str")
        converted == fromString(value.s, k.defaultValue)
        w         == storeTyped(acc.st, Mem[k.name], converted, env[k.name] /= "ioFail")
    IN
    IF index(k.defaultValue) = "Str" THEN migrateFromString_abortOnError(acc, i + 1, env)
    ELSE IF ~hasKey(acc.st, Mem[k.name]) THEN migrateFromString_abortOnError(acc, i + 1, env)
    ELSE IF value = NoValue THEN migrateFromString_abortOnError(acc, i + 1, env)
    ELSE IF converted = NoValue
      THEN migrateFromString_abortOnError(
             [acc EXCEPT !.errors = @ + 1,
                         !.events = @ \o <<Ev("convert", k.name, value, FALSE)>>], i + 1, env)
    ELSE migrateFromString_abortOnError(
           [st |-> w.s, errors |-> acc.errors + (IF w.ret THEN 0 ELSE 1),
            events |-> acc.events \o <<Ev("convert", k.name, value, TRUE),
                                       Ev("store", k.name, converted, w.ret)>>], i + 1, env)

\* The loop of Migration::migrateFromString (Migration.h:67-249) from the key
\* at index i on.  acc: Storage, the error count and the steps so far;
\* env[k]: whether the store of k fails.
RECURSIVE migrateFromString(_, _, _)
migrateFromString(acc, i, env) ==
  IF i > Len(_keys) THEN acc
  ELSE
    LET k         == _keys[i]
        value     == StorageLoad(acc.st, Mem[k.name], "Str")
        converted == fromString(value.s, k.defaultValue)
        w         == storeTyped(acc.st, Mem[k.name], converted, env[k.name] /= "ioFail")
    IN
    IF index(k.defaultValue) = "Str" THEN migrateFromString(acc, i + 1, env)
    ELSE IF ~hasKey(acc.st, Mem[k.name]) THEN migrateFromString(acc, i + 1, env)
    ELSE IF value = NoValue THEN migrateFromString(acc, i + 1, env)
    ELSE IF converted = NoValue
      THEN migrateFromString(
             [acc EXCEPT !.errors = @ + 1,
                         !.events = @ \o <<Ev("convert", k.name, value, FALSE)>>], i + 1, env)
    ELSE migrateFromString(
           [st |-> w.s, errors |-> acc.errors + (IF w.ret THEN 0 ELSE 1),
            events |-> acc.events \o <<Ev("convert", k.name, value, TRUE),
                                       Ev("store", k.name, converted, w.ret)>>], i + 1, env)

\* The application of this part: a numeric, a boolean and a string setting
DeclsMigration == << Key(A_PWD, StrV(<<>>)), Key(A_PORT, I32(0)), Key(A_ENABLE, Bool(FALSE)) >>

MigrationNames == {A_PORT, A_ENABLE, A_PWD, A_NOKEY}

FromKinds == {"int32_t", "Str", "bool"}

\* the largest number a migration is asked to produce
MaxMigrated == 100

\* what an earlier firmware may have left in Storage for each name: nothing,
\* the value as a raw string (legacy format) or the typed value
LegacyEntries(name) ==
  CASE name = PORT        -> {Absent, Encode(StrV(<<"4", "2">>)), Encode(StrV(<<"4", "x">>)),
                              Encode(I32(42))}
    [] name = WIFI_ENABLE -> {Absent, Encode(StrV(VALUE_TRUE)), Encode(Bool(TRUE))}
    [] name = WIFI_PWD    -> {Absent, Encode(StrV(ABC))}
    [] OTHER              -> {Absent}

LegacyItems == {f \in [StoreNames -> UNION {LegacyEntries(n) : n \in StoreNames}] :
                  \A n \in StoreNames : f[n] \in LegacyEntries(n)}

\* after construction and the configure calls, on a device that holds what an
\* earlier firmware stored
InitMigration ==
  /\ _keys = ConfigureAll([keys |-> <<>>, validators |-> {}], DeclsMigration).keys
  /\ _validators = ConfigureAll([keys |-> <<>>, validators |-> {}], DeclsMigration).validators
  /\ _name = NULL
  /\ _cache = EmptyMap
  /\ _globalValidatorCallback = FALSE
  /\ _changeCallback = FALSE
  /\ _restoreCallback = FALSE
  /\ calls = <<>>
  /\ storage \in {[handle |-> FALSE, items |-> f] : f \in LegacyItems}
  /\ last = Call("new", NULL, NoValue, FALSE, "", FALSE, FALSE)
  /\ events = <<>>

\* Migration::begin(name) (Migration.h:17)
MigrationBegin(ok) ==
  \E b \in {StorageBegin(storage, ok)} :
  /\ storage' = b.s
  /\ last' = Call("migrationBegin", NULL, NoValue, FALSE,
                  IF b.ret THEN "true" ELSE "false", FALSE, FALSE)
  /\ events' = <<>>
  /\ UNCHANGED <<calls, _restoreCallback, _keys, _name, _cache, _validators,
                 _globalValidatorCallback, _changeCallback>>

\* Migration::end() (Migration.h:18)
MigrationEnd ==
  /\ storage' = StorageEnd(storage)
  /\ last' = Call("migrationEnd", NULL, NoValue, FALSE, "", FALSE, FALSE)
  /\ events' = <<>>
  /\ UNCHANGED <<calls, _restoreCallback, _keys, _name, _cache, _validators,
                 _globalValidatorCallback, _changeCallback>>

\* Migration::migrate<FROM>(key, transform); last.value is what the transform
\* returned
Migrate(k, FROM, f, ioOk) ==
  \E r \in {migrate(storage, k, FROM, f, ioOk)} :
  /\ r.migrated.n <= MaxMigrated
  /\ storage' = r.st
  /\ events' = r.events
  /\ last' = Call("migrate", k, r.migrated, FALSE, r.result, FALSE, FALSE)
  /\ UNCHANGED <<calls, _restoreCallback, _keys, _name, _cache, _validators,
                 _globalValidatorCallback, _changeCallback>>

\* Migration::migrateFromString() (Migration.h:63-258)
MigrateFromString(env) ==
  \E r \in {migrateFromString([st |-> storage, errors |-> 0, events |-> <<>>], 1, env)} :
  /\ storage' = r.st
  /\ events' = r.events
  /\ last' = Call("migrateFromString", NULL, NoValue, FALSE,
                  IF r.errors = 0 THEN "true" ELSE "false", FALSE, FALSE)
  /\ UNCHANGED <<calls, _restoreCallback, _keys, _name, _cache, _validators,
                 _globalValidatorCallback, _changeCallback>>

\* which stores of a migrateFromString fail
MigrationEnvs == [Addr -> {"ok"}]
                   \cup {[k \in Addr |-> IF k = a THEN "ioFail" ELSE "ok"] : a \in {A_PORT, A_ENABLE}}

NextMigration ==
  \/ \E ok \in BOOLEAN : MigrationBegin(ok)
  \/ MigrationEnd
  \/ \E k \in MigrationNames, FROM \in FromKinds, ioOk \in BOOLEAN :
       \E f \in TransformsFor(FROM) : Migrate(k, FROM, f, ioOk)
  \/ \E env \in MigrationEnvs : MigrateFromString(env)
  \/ \E preload \in BOOLEAN, ok \in BOOLEAN : Begin(preload, ok)
  \/ \E k \in MigrationNames : Get(k)
  \/ End

SpecMigration == InitMigration /\ [][NextMigration]_vars

-----------------------------------------------------------------------------
(* Names passed from a buffer                                              *)

\* the names the application calls the engine with when it also builds a
\* name in a buffer: the literal it configured and a buffer that holds the
\* same characters at another address
AliasNames == {A_PWD, A_PWD_COPY}

AliasValues == {StrV(<<>>), StrV(ABC)}

NextAlias ==
  \/ \E preload \in BOOLEAN, ok \in BOOLEAN : Begin(preload, ok)
  \/ End
  \/ \E k \in AliasNames, callback \in BOOLEAN : SetValidator(k, callback)
  \/ \E k \in AliasNames : Get(k)
  \/ \E k \in AliasNames, value \in AliasValues, fire \in BOOLEAN,
        o \in {"ok", "kvReject", "ioFail"} :
       Set(k, value, fire, TRUE, o /= "kvReject", o /= "ioFail")
  \/ \E k \in AliasNames, fire \in BOOLEAN, ioOk \in BOOLEAN : Unset(k, fire, ioOk)
  \/ \E ioOk \in BOOLEAN : Clear(ioOk)
  \/ \E k \in AliasNames, fire \in BOOLEAN, o \in {"ok", "kvReject", "ioFail"} :
       \E settings \in BatchesOver({k}) :
         SetAll(settings, fire, [a \in Addr |-> o], NoPads)

SpecAlias == Init /\ [][NextAlias]_vars

-----------------------------------------------------------------------------
(* The registry while the application declares its keys (Config.h:44-54)   *)

\* the longest key name the NVS partition takes, with its final NUL (nvs.h)
NVS_KEY_NAME_MAX_SIZE == 16

\* std::sort that leaves the vector as it was
sort_asPushed(keys) == {keys}

\* std::sort(_keys.begin(), _keys.end(), strcmp(a.name, b.name) < 0)
\* (Config.h:47): the vectors it may leave, the order of keys with equal
\* names being unspecified
sort(keys) ==
  {ks \in {[i \in 1..Len(keys) |-> keys[p[i]]] : p \in Permutations(1..Len(keys))} :
     \A i \in 1..(Len(ks) - 1) : strcmpAt(ks[i].name, ks[i + 1].name) <= 0}

\* the names the application declares: two literals, a buffer with the
\* characters of the first, and a name longer than the NVS limit
RegistryNames == {A_PWD, A_PWD_COPY, A_ENABLE, A_LONG}

\* the default it declares for a name
RegistryDefault(k) ==
  CASE k = A_ENABLE   -> Bool(FALSE)
    [] k = A_PWD_COPY -> StrV(ABC)
    [] OTHER          -> StrV(<<>>)

\* the number of configure calls of the application
MaxKeys == 3

\* after construction
InitRegistry ==
  /\ _keys = <<>>
  /\ _validators = {}
  /\ _name = NULL
  /\ _cache = EmptyMap
  /\ _globalValidatorCallback = FALSE
  /\ _changeCallback = FALSE
  /\ _restoreCallback = FALSE
  /\ calls = <<>>
  /\ storage = [handle |-> FALSE, items |-> [n \in StoreNames |-> Absent]]
  /\ last = Call("new", NULL, NoValue, FALSE, "", FALSE, FALSE)
  /\ events = <<>>

\* Config::configure(key, defaultValue, callback) (Config.h:44-54)
Configure(k, defaultValue, callback) ==
  /\ Len(_keys) < MaxKeys
  /\ \E ks \in sort(Append(_keys, Key(k, defaultValue))) : _keys' = ks
  /\ _validators' = IF callback THEN _validators \cup {k} ELSE _validators
  /\ last' = Call("configure", k, defaultValue, callback, "true", FALSE, FALSE)
  /\ events' = <<>>
  /\ UNCHANGED <<calls, _restoreCallback, _name, _cache, _globalValidatorCallback, _changeCallback, storage>>

\* Config::keyRef(buffer) (Config.h:144-147): the registered pointer, or
\* nullptr
KeyRef(buffer) ==
  /\ last' = Call("keyRef", buffer, NoValue, FALSE,
                  IF key(buffer) = 0 THEN NULL ELSE _keys[key(buffer)].name, FALSE, FALSE)
  /\ events' = <<>>
  /\ UNCHANGED <<calls, _restoreCallback, _keys, _name, _cache, _validators, _globalValidatorCallback,
                 _changeCallback, storage>>

NextRegistry ==
  \/ \E k \in RegistryNames, callback \in BOOLEAN : Configure(k, RegistryDefault(k), callback)
  \/ \E buffer \in RegistryNames \cup {A_NOKEY} : KeyRef(buffer)

SpecRegistry == InitRegistry /\ [][NextRegistry]_vars

-----------------------------------------------------------------------------
(* Classification of a Key by its name (Key.h:29-41)                       *)

\* the names of the keys classified: every start followed by a suffix, by a
\* suffix without its "_" or by the first characters of a suffix
ClassifyNames ==
  {start \o tail :
     start \in {<<>>, <<"x">>, <<"a", "p">>, <<"w", "i", "f", "i">>},
     tail \in {PASSWORD_SUFFIX, Tail(PASSWORD_SUFFIX), ENABLE_SUFFIX, Tail(ENABLE_SUFFIX),
               <<"_", "p", "w">>}}

\* a Key constructed with one of these names (Key.h:19), somewhere in memory:
\* events holds the two bytes in front of the name
InitClassify ==
  /\ _keys = <<>>
  /\ _validators = {}
  /\ _name = NULL
  /\ _cache = EmptyMap
  /\ _globalValidatorCallback = FALSE
  /\ _changeCallback = FALSE
  /\ _restoreCallback = FALSE
  /\ calls = <<>>
  /\ storage = [handle |-> FALSE, items |-> [n \in StoreNames |-> Absent]]
  /\ \E name \in ClassifyNames :
       last = Call("Key", NULL, StrV(name), FALSE, "", FALSE, FALSE)
  /\ \E before \in Pads : events = <<Ev("before", NULL, StrV(before), TRUE)>>

\* Key::isPasswordKey()
IsPasswordKey ==
  /\ last' = [last EXCEPT !.op = "isPasswordKey",
                          !.result = IF isPasswordKey(last.value.s, events[1].v.s)
                                       THEN "true" ELSE "false"]
  /\ UNCHANGED <<calls, _keys, _name, _cache, _validators, _globalValidatorCallback,
                 _changeCallback, _restoreCallback, storage, events>>

\* Key::isEnableKey()
IsEnableKey ==
  /\ last' = [last EXCEPT !.op = "isEnableKey",
                          !.result = IF isEnableKey(last.value.s, events[1].v.s)
                                       THEN "true" ELSE "false"]
  /\ UNCHANGED <<calls, _keys, _name, _cache, _validators, _globalValidatorCallback,
                 _changeCallback, _restoreCallback, storage, events>>

NextClassify ==
  \/ IsPasswordKey
  \/ IsEnableKey

SpecClassify == InitClassify /\ [][NextClassify]_vars

-----------------------------------------------------------------------------
(* JSON projection (Config.h:336-359)                                      *)

\* MYCILA_CONFIG_PASSWORD_MASK (Defines.h:26-30)
PASSWORD_MASK == <<"*", "*", "*", "*", "*", "*", "*", "*">>

\* what toJson(key, out) sets for the value _get returned (Config.h:344-357):
\* a bool or a number as it is, a string as it is unless isPasswordKey()
jsonOf(name, value, before) ==
  IF index(value) = "Str" /\ isPasswordKey(Mem[name], before)
    THEN StrV(PASSWORD_MASK) ELSE value

\* Config::toJson(root) (Config.h:337-341) from the key at index i on: the
\* cache after the _get calls and, as steps "json", what is set for each key
RECURSIVE toJson(_, _, _, _)
toJson(st, cache, i, before) ==
  IF i > Len(_keys) THEN [cache |-> cache, events |-> <<>>]
  ELSE LET g == _get(st, cache, i)
           rest == toJson(st, g.cache, i + 1, before)
       IN [cache |-> rest.cache,
           events |-> <<Ev("json", _keys[i].name,
                           jsonOf(_keys[i].name, g.value, before[_keys[i].name]), TRUE)>>
                        \o rest.events]

\* Config::toJson(const JsonObject& root)
ToJson(before) ==
  \E r \in {toJson(storage, _cache, 1, before)} :
  /\ _cache' = r.cache
  /\ events' = r.events
  /\ last' = Call("toJson", NULL, NoValue, FALSE, "", FALSE, FALSE)
  /\ UNCHANGED <<calls, _restoreCallback, _keys, _name, _validators, _globalValidatorCallback,
                 _changeCallback, storage>>

\* the names of this application are long enough for isPasswordKey to read
\* inside them: the bytes in front are never looked at
NextJson ==
  \/ \E preload \in BOOLEAN, ok \in BOOLEAN : Begin(preload, ok)
  \/ End
  \/ \E k \in CallNames : Get(k)
  \/ \E k \in CallNames, ioOk \in BOOLEAN :
       \E value \in ValuesFor(k) : Set(k, value, FALSE, TRUE, TRUE, ioOk)
  \/ \E k \in CallNames, ioOk \in BOOLEAN : Unset(k, FALSE, ioOk)
  \/ ToJson(NoPads)

SpecJson == Init /\ [][NextJson]_vars

-----------------------------------------------------------------------------
(* Values and texts converted by the application (Value.h:82-178)          *)

\* the values it converts: both bools, the ends and the inside of the range
\* of each integer kind, strings
ConvertedValues ==
  {Bool(FALSE), Bool(TRUE)}
    \cup {U8(n) : n \in {0, 1, 9, 10, 42, 255}}
    \cup {I32(n) : n \in {-2147483647 - 1, -42, -1, 0, 7, 2147483647}}
    \cup {StrV(<<>>), StrV(ABC), StrV(<<"4", "2">>), StrV(VALUE_TRUE)}

\* the texts it parses: the empty text, numbers, numbers followed or
\* preceded by something else, a sign alone, the literals read as true, other
\* words
ConvertedTexts ==
  { <<>>, <<"0">>, <<"4", "2">>, <<"-", "1">>, <<"2", "5", "5">>, <<"2", "5", "6">>,
    <<"4", "x">>, <<"x", "4">>, <<"4", "-">>, <<"-">>, <<"4", "2", "\n">>,
    VALUE_TRUE, VALUE_FALSE, <<"1">>, <<"o", "n">>, <<"y", "e", "s">>, <<"y">>,
    <<"n", "o">>, ABC }

\* a Value (last.value) and a text (events[1].v.s) at hand
InitText ==
  /\ _keys = <<>>
  /\ _validators = {}
  /\ _name = NULL
  /\ _cache = EmptyMap
  /\ _globalValidatorCallback = FALSE
  /\ _changeCallback = FALSE
  /\ _restoreCallback = FALSE
  /\ calls = <<>>
  /\ storage = [handle |-> FALSE, items |-> [n \in StoreNames |-> Absent]]
  /\ \E v \in ConvertedValues : last = Call("Value", NULL, v, FALSE, "", FALSE, FALSE)
  /\ \E text \in ConvertedTexts : events = <<Ev("text", NULL, StrV(text), TRUE)>>

\* text = value.toString(); flag: the text at hand is the one toString made
\* of the value at hand
ValueToString ==
  /\ events' = <<Ev("text", NULL, StrV(toString(last.value)), TRUE)>>
  /\ last' = [last EXCEPT !.op = "toString", !.flag = TRUE, !.result = ""]
  /\ UNCHANGED <<calls, _keys, _name, _cache, _validators, _globalValidatorCallback,
                 _changeCallback, _restoreCallback, storage>>

\* Value::fromString(text, value): the step "parsed" holds what it returned
ValueFromString ==
  \E r \in {fromString(events[1].v.s, last.value)} :
  /\ events' = <<events[1], Ev("parsed", NULL, r, r /= NoValue)>>
  /\ last' = [last EXCEPT !.op = "fromString",
                          !.result = IF r = NoValue THEN "nullopt" ELSE "value"]
  /\ UNCHANGED <<calls, _keys, _name, _cache, _validators, _globalValidatorCallback,
                 _changeCallback, _restoreCallback, storage>>

NextText ==
  \/ ValueToString
  \/ ValueFromString

SpecText == InitText /\ [][NextText]_vars

-----------------------------------------------------------------------------
(* Calls in progress: _set and unset taken one step at a time              *)
(* (Config.h:424-487, 195-222).  calls holds the frame of every set/unset  *)
(* that was entered and has not returned.  Two callers that do not         *)
(* serialize their calls: calls maps each caller to its frame and the      *)
(* steps of the frames interleave (the engine takes no lock; the           *)
(* concurrent execution of two steps is taken as one of their two orders). *)
(* A callback that re-enters the engine: calls is the call stack, only the *)
(* top frame runs.                                                         *)

\* a call that was just entered.  locked: the caller holds the application's
\* mutex for the time of the call; nested: the callback running at pc has
\* re-entered the engine; before, after: the keys of the calls that were
\* entered from a callback while this call, the outermost, was at its
\* validators and at its change callback
Frame(op, k, value, fire, locked) ==
  [op |-> op, key |-> k, value |-> value, fire |-> fire, locked |-> locked,
   pc |-> "enter", result |-> "", nested |-> FALSE, before |-> {}, after |-> {}]

Goto(f, pc) == [f EXCEPT !.pc = pc, !.nested = FALSE]

Done(f, result) == [f EXCEPT !.pc = "done", !.result = result, !.nested = FALSE]

\* the step of _set that updates the cache before it looks at the result of
\* the write
_setStep_cacheBeforeWrite(f, st, cache, ok) ==
  LET k  == f.key
      kx == key(k)
      out(g, s, c) == [f |-> g, st |-> s, cache |-> c]
      w  == StorageStore(st, Mem[k], f.value, ok)
  IN
  CASE f.pc = "enter" ->
         IF ~enabled THEN out(Done(f, "ERR_DISABLED"), st, cache)
         ELSE IF kx = 0 THEN out(Done(f, "ERR_UNKNOWN_KEY"), st, cache)
         ELSE IF index(f.value) /= index(_keys[kx].defaultValue)
           THEN out(Done(f, "ERR_INVALID_TYPE"), st, cache)
         ELSE IF isDefaulted(stored(st, k), _keys[kx].defaultValue, f.value)
           THEN out(Done(f, "DEFAULTED"), st, cache)
         ELSE out(Goto(f, "globalValidator"), st, cache)
    [] f.pc = "globalValidator" ->
         IF _globalValidatorCallback /\ ~ok
           THEN out(Done(f, "ERR_INVALID_VALUE"), st, cache)
           ELSE out(Goto(f, "keyValidator"), st, cache)
    [] f.pc = "keyValidator" ->
         IF _keys[kx].name \in _validators /\ ~ok
           THEN out(Done(f, "ERR_INVALID_VALUE"), st, cache)
           ELSE out(Goto(f, "store"), st, cache)
    [] f.pc = "store" ->
         IF w.ret THEN out(Goto(f, "cache"), w.s, cacheStore(cache, k, f.value))
         ELSE out(Done(f, "ERR_FAIL_ON_WRITE"), w.s, cacheStore(cache, k, f.value))
    [] f.pc = "cache" -> out(Goto(f, "notify"), st, cache)
    [] f.pc = "notify" -> out(Done(f, "PERSISTED"), st, cache)

\* one step of Config::_set (Config.h:424-487).  ok: the verdict of the
\* validator that runs at this step, or whether the physical write succeeds
_setStep(f, st, cache, ok) ==
  LET k  == f.key
      kx == key(k)
      out(g, s, c) == [f |-> g, st |-> s, cache |-> c]
      w  == StorageStore(st, Mem[k], f.value, ok)
  IN
  CASE f.pc = "enter" ->
         IF ~enabled THEN out(Done(f, "ERR_DISABLED"), st, cache)
         ELSE IF kx = 0 THEN out(Done(f, "ERR_UNKNOWN_KEY"), st, cache)
         ELSE IF index(f.value) /= index(_keys[kx].defaultValue)
           THEN out(Done(f, "ERR_INVALID_TYPE"), st, cache)
         ELSE IF isDefaulted(stored(st, k), _keys[kx].defaultValue, f.value)
           THEN out(Done(f, "DEFAULTED"), st, cache)
         ELSE out(Goto(f, "globalValidator"), st, cache)
    [] f.pc = "globalValidator" ->
         IF _globalValidatorCallback /\ ~ok
           THEN out(Done(f, "ERR_INVALID_VALUE"), st, cache)
           ELSE out(Goto(f, "keyValidator"), st, cache)
    [] f.pc = "keyValidator" ->
         IF _keys[kx].name \in _validators /\ ~ok
           THEN out(Done(f, "ERR_INVALID_VALUE"), st, cache)
           ELSE out(Goto(f, "store"), st, cache)
    [] f.pc = "store" ->
         IF w.ret THEN out(Goto(f, "cache"), w.s, cache)
         ELSE out(Done(f, "ERR_FAIL_ON_WRITE"), w.s, cache)
    [] f.pc = "cache" -> out(Goto(f, "notify"), st, cacheStore(cache, k, f.value))
    [] f.pc = "notify" -> out(Done(f, "PERSISTED"), st, cache)

\* one step of Config::unset (Config.h:195-222)
unsetStep(f, st, cache, ok) ==
  LET k == f.key
      out(g, s, c) == [f |-> g, st |-> s, cache |-> c]
      r == StorageRemove(st, Mem[k], ok)
  IN
  CASE f.pc = "enter" ->
         IF ~enabled THEN out(Done(f, "ERR_DISABLED"), st, cache)
         ELSE IF key(k) = 0 THEN out(Done(f, "ERR_UNKNOWN_KEY"), st, cache)
         ELSE out(Goto(f, "remove"), st, cache)
    [] f.pc = "remove" ->
         IF r.ret THEN out(Goto(f, "erase"), r.s, cache)
         ELSE out(Done(f, "ERR_FAIL_ON_REMOVE"), r.s, cache)
    [] f.pc = "erase" -> out(Goto(f, "notify"), st, MapErase(cache, k))
    [] f.pc = "notify" -> out(Done(f, "REMOVED"), st, cache)

\* the code of the application that runs while the call f stands at pc: the
\* global validator (Config.h:454), the validator of the key (Config.h:463)
\* or the change callback (Config.h:483, 218-219)
InCallback(f) ==
  \/ f.op = "set" /\ f.pc = "globalValidator" /\ _globalValidatorCallback
  \/ f.op = "set" /\ f.pc = "keyValidator" /\ _keys[key(f.key)].name \in _validators
  \/ f.pc = "notify" /\ f.fire /\ _changeCallback

\* the call c takes its next step
Step(c, ok) ==
  /\ c \in DOMAIN calls
  /\ calls[c].pc /= "done"
  /\ \E r \in {IF calls[c].op = "set" THEN _setStep(calls[c], storage, _cache, ok)
               ELSE unsetStep(calls[c], storage, _cache, ok)} :
       /\ calls' = [calls EXCEPT ![c] = r.f]
       /\ storage' = r.st
       /\ _cache' = r.cache
  /\ UNCHANGED <<_restoreCallback, _keys, _name, _validators, _globalValidatorCallback,
                 _changeCallback, last, events>>

\* the tasks of the application that call the engine
Callers == {"loopTask", "httpTask"}

\* the key both tasks write and the values they write
ConcurrentValues == {StrV(<<>>), StrV(ABC)}

\* the last two of the results returned
LastTwo(evs) == IF Len(evs) <= 2 THEN evs ELSE Tail(evs)

\* the task c calls set(k, value); a task that serializes its calls waits
\* for the mutex
StartCall(c, k, value, locked) ==
  /\ c \notin DOMAIN calls
  /\ locked => \A d \in DOMAIN calls : ~calls[d].locked
  /\ calls' = MapPut(calls, c, Frame("set", k, value, TRUE, locked))
  /\ UNCHANGED <<_restoreCallback, _keys, _name, _cache, _validators,
                 _globalValidatorCallback, _changeCallback, storage, last, events>>

\* the call of task c returns; events keeps the last two results returned
\* (r: PERSISTED) and whether the call was serialized
ReturnCall(c) ==
  /\ c \in DOMAIN calls
  /\ calls[c].pc = "done"
  /\ calls' = MapErase(calls, c)
  /\ events' = LastTwo(Append(events,
                 Ev(IF calls[c].locked THEN "serialized" ELSE "unserialized",
                    calls[c].key, calls[c].value, calls[c].result = "PERSISTED")))
  /\ last' = Call(calls[c].op, calls[c].key, calls[c].value, calls[c].fire,
                  calls[c].result, FALSE, FALSE)
  /\ UNCHANGED <<_restoreCallback, _keys, _name, _cache, _validators,
                 _globalValidatorCallback, _changeCallback, storage>>

\* get between the calls: it leaves the results returned in place
GetBetween(k) ==
  /\ DOMAIN calls = {}
  /\ \E r \in {_get(storage, _cache, key(k))} :
       /\ _cache' = r.cache
       /\ last' = Call("get", k, r.value, FALSE, "value", FALSE, FALSE)
  /\ UNCHANGED <<calls, _restoreCallback, _keys, _name, _validators,
                 _globalValidatorCallback, _changeCallback, storage, events>>

NextConcurrent ==
  \/ DOMAIN calls = {} /\ \E ok \in BOOLEAN : Begin(FALSE, ok)
  \/ GetBetween(A_PWD)
  \/ \E c \in Callers, value \in ConcurrentValues, locked \in BOOLEAN :
       StartCall(c, A_PWD, value, locked)
  \/ \E c \in Callers, ok \in BOOLEAN : Step(c, ok)
  \/ \E c \in Callers : ReturnCall(c)

SpecConcurrent == Init /\ [][NextConcurrent]_vars

\* how deep the calls of the application nest
MaxDepth == 2

\* the calls the application makes, from its tasks and from its callbacks
ReentrantCalls ==
  {Frame("set", A_PWD, value, fire, FALSE) :
     value \in {StrV(<<>>), StrV(ABC)}, fire \in BOOLEAN}
  \cup {Frame("set", A_ENABLE, Bool(TRUE), fire, FALSE) : fire \in BOOLEAN}
  \cup {Frame("unset", k, NoValue, fire, FALSE) : k \in {A_PWD, A_ENABLE}, fire \in BOOLEAN}

\* the application has declared its keys, installed a validator for wifi_pwd
\* and a change callback, and has begun the engine
InitReentrant ==
  /\ _keys = ConfigureAll([keys |-> <<>>, validators |-> {}], Decls).keys
  /\ _validators = {A_PWD}
  /\ _name = CONFIG_NAME
  /\ _cache = EmptyMap
  /\ _globalValidatorCallback = FALSE
  /\ _changeCallback = TRUE
  /\ _restoreCallback = FALSE
  /\ calls = <<>>
  /\ storage = [handle |-> TRUE, items |-> [n \in StoreNames |-> Absent]]
  /\ last = Call("begin", NULL, NoValue, FALSE, "true", FALSE, FALSE)
  /\ events = <<>>

\* the application calls set or unset from outside any callback
Enter(f) ==
  /\ calls = <<>>
  /\ calls' = <<f>>
  /\ events' = <<>>
  /\ last' = Call(f.op, f.key, f.value, f.fire, "", FALSE, FALSE)
  /\ UNCHANGED <<_restoreCallback, _keys, _name, _cache, _validators,
                 _globalValidatorCallback, _changeCallback, storage>>

\* the callback that runs in the top call calls set or unset (once)
Reenter(f) ==
  /\ calls /= <<>>
  /\ Len(calls) < MaxDepth
  /\ InCallback(calls[Len(calls)])
  /\ ~calls[Len(calls)].nested
  /\ \E marked \in {[calls EXCEPT ![Len(calls)].nested = TRUE]} :
       calls' = Append(IF calls[1].pc = "notify"
                         THEN [marked EXCEPT ![1].after = @ \cup {f.key}]
                         ELSE [marked EXCEPT ![1].before = @ \cup {f.key}],
                       f)
  /\ UNCHANGED <<_restoreCallback, _keys, _name, _cache, _validators,
                 _globalValidatorCallback, _changeCallback, storage, last, events>>

\* the keys re-entered during the call f, in registry order: before its
\* write (step "validator") and after it (step "change")
Reentered(f) ==
  SelectSeq([i \in 1..(2 * Len(_keys)) |->
               IF i <= Len(_keys)
                 THEN Ev("validator", _keys[i].name, NoValue, _keys[i].name \in f.before)
                 ELSE Ev("change", _keys[i - Len(_keys)].name, NoValue,
                         _keys[i - Len(_keys)].name \in f.after)],
            LAMBDA e : e.r)

\* the top call returns, to the callback that made it or to the application
ReturnTop ==
  /\ calls /= <<>>
  /\ calls[Len(calls)].pc = "done"
  /\ calls' = SubSeq(calls, 1, Len(calls) - 1)
  /\ IF Len(calls) = 1
       THEN /\ last' = Call(calls[1].op, calls[1].key, calls[1].value, calls[1].fire,
                            calls[1].result, FALSE, FALSE)
            /\ events' = Reentered(calls[1])
       ELSE UNCHANGED <<last, events>>
  /\ UNCHANGED <<_restoreCallback, _keys, _name, _cache, _validators,
                 _globalValidatorCallback, _changeCallback, storage>>

NextReentrant ==
  \/ \E f \in ReentrantCalls : Enter(f)
  \/ \E f \in ReentrantCalls : Reenter(f)
  \/ calls /= <<>> /\ \E ok \in BOOLEAN : Step(Len(calls), ok)
  \/ ReturnTop

SpecReentrant == InitReentrant /\ [][NextReentrant]_vars

-----------------------------------------------------------------------------
(* Properties                                                              *)

\* what get(k) returns when called in the current state (k registered)
GetNow(k) == _get(storage, _cache, key(k)).value

\* the default value k was declared with (k registered)
DefaultOf(k) == _keys[key(k)].defaultValue

\* C1: on an Open engine, when set(k, v) on a registered key k with a value
\* of k's kind returns PERSISTED, the next get(k) returns v and stored(k) is
\* true.
C1_PersistedThenGet ==
  (last.op = "set" /\ last.result = "PERSISTED") =>
    /\ last.key \in Registered
    /\ enabled
    /\ index(last.value) = index(DefaultOf(last.key))
    /\ ValueEq(GetNow(last.key), last.value)
    /\ stored(storage, last.key)

\* a set of a non-default string that was persisted
C1_Witness ==
  /\ last.op = "set" /\ last.result = "PERSISTED"
  /\ last.key = A_PWD /\ last.value = StrV(ABC)

\* C2: no stale cache: in every reachable state every cache entry belongs to
\* a registered key and equals what Storage holds for that key under the
\* key's declared kind, and get(k) returns Storage's value for k, or k's
\* default when Storage holds none.
C2_NoStaleCache ==
  /\ \A a \in DOMAIN _cache :
       /\ a \in Registered
       /\ _cache[a] = StorageLoad(storage, Mem[a], index(DefaultOf(a)))
  /\ \A a \in Registered :
       LET held == StorageLoad(storage, Mem[a], index(DefaultOf(a))) IN
       GetNow(a) = IF held /= NoValue THEN held ELSE DefaultOf(a)

\* both keys are cached and the last call changed Storage under the cache
C2_Witness ==
  /\ DOMAIN _cache = {A_ENABLE, A_PWD}
  /\ last.op = "set" /\ last.result = "PERSISTED"
  /\ last.value = StrV(<<>>)

\* C3: right after a successful begin, with or without preload, get(k)
\* returns k's declared default for every registered key k that Storage
\* holds no value for.
C3_DefaultAfterBegin ==
  (last.op = "begin" /\ last.result = "true") =>
    \A a \in Registered :
      ~hasKey(storage, Mem[a]) => GetNow(a) = DefaultOf(a)

\* a begin with preload that loaded one key into the cache and found nothing
\* for the other
C3_Witness ==
  /\ last.op = "begin" /\ last.result = "true" /\ last.flag
  /\ InCache(_cache, A_PWD)
  /\ ~hasKey(storage, WIFI_ENABLE)

\* C4: on an Open engine, set(k, defaultOf(k)) on a registered key that
\* Storage does not hold returns DEFAULTED and changes nothing: Storage and
\* the cache are as before, and no validator or change callback is invoked.
C4_DefaultedIsNoOp ==
  [][ ( /\ last'.op = "set"
        /\ enabled
        /\ last'.key \in Registered
        /\ ~stored(storage, last'.key)
        /\ last'.value = DefaultOf(last'.key) )
      => ( /\ last'.result = "DEFAULTED"
           /\ storage' = storage
           /\ ~stored(storage', last'.key)
           /\ _cache' = _cache
           /\ events' = <<>> ) ]_vars

\* a DEFAULTED set with notification asked for, while a global validator, a
\* validator of the key and a change callback are installed
C4_Witness ==
  /\ last.op = "set" /\ last.result = "DEFAULTED" /\ last.flag
  /\ last.key = A_PWD /\ A_PWD \in _validators
  /\ _globalValidatorCallback /\ _changeCallback
  /\ hasKey(storage, WIFI_ENABLE)

\* C5: a successful unset(k) makes get(k) return k's default again and
\* stored(k) false, also when k had been persisted by a set and was in the
\* cache.
C5_UnsetReverts ==
  (last.op = "unset" /\ last.result = "REMOVED") =>
    /\ last.key \in Registered
    /\ GetNow(last.key) = DefaultOf(last.key)
    /\ ~stored(storage, last.key)
    /\ ~InCache(_cache, last.key)

\* an unset of a key that a set had persisted and that was in the cache
C5_Witness ==
  /\ last.op = "unset" /\ last.result = "REMOVED"
  /\ last.had /\ last.hit

\* the steps of kind e in a sequence of steps
Steps(evs, e) == {i \in 1..Len(evs) : evs[i].e = e}

Validations == {"globalValidator", "keyValidator"}

\* C7: when the global validator or the key's own validator returns false
\* for (k, v), set(k, v) returns ERR_INVALID_VALUE, and stored(k), Storage
\* and the cache are exactly as before the call; no change callback fires.
C7_ValidatorRejection ==
  [][ last'.op = "set" =>
        /\ (\E i \in 1..Len(events') : events'[i].e \in Validations /\ ~events'[i].r)
             => last'.result = "ERR_INVALID_VALUE"
        /\ last'.result = "ERR_INVALID_VALUE" =>
             /\ \E i \in 1..Len(events') : events'[i].e \in Validations /\ ~events'[i].r
             /\ storage' = storage
             /\ stored(storage', last'.key) = stored(storage, last'.key)
             /\ _cache' = _cache
             /\ Steps(events', "change") = {} ]_vars

\* the key's validator rejected a new value for a key that is stored and
\* cached with another value, a change callback being installed
C7_Witness ==
  /\ last.op = "set" /\ last.result = "ERR_INVALID_VALUE" /\ last.flag
  /\ _changeCallback
  /\ events /= <<>> /\ events[Len(events)].e = "keyValidator"
  /\ hasKey(storage, Mem[last.key])
  /\ InCache(_cache, last.key) /\ _cache[last.key] /= last.value

\* the position of a step in the order of _set
Rank(e) ==
  CASE e = "globalValidator" -> 1
    [] e = "keyValidator"    -> 2
    [] e = "store"           -> 3
    [] e = "cache"           -> 4
    [] e = "change"          -> 5
    [] OTHER                 -> 6

\* C8: set runs its steps in one fixed order and returns at the first that
\* fails: unknown-key check, kind check, the 'equals default and not
\* persisted' short-circuit, global validator, per-key validator, physical
\* write, cache update, change notification.  No validator is invoked for an
\* unknown key, a wrong-kind value or a DEFAULTED call, the per-key validator
\* is not invoked when the global validator rejects, and Storage is never
\* written before both validators accepted.
C8_SetOrder ==
  (last.op = "set" /\ enabled) =>
    \* the checks, in order
    /\ last.key \notin Registered => last.result = "ERR_UNKNOWN_KEY"
    /\ (last.key \in Registered /\ index(last.value) /= index(DefaultOf(last.key)))
         => last.result = "ERR_INVALID_TYPE"
    /\ last.result \in {"ERR_UNKNOWN_KEY", "ERR_INVALID_TYPE", "DEFAULTED"} => events = <<>>
    \* the steps come in the fixed order, each at most once
    /\ \A i, j \in 1..Len(events) : i < j => Rank(events[i].e) < Rank(events[j].e)
    \* the call returns at the first step that fails
    /\ \A i \in 1..Len(events) : ~events[i].r => i = Len(events)
    \* no write before every installed validator was invoked
    /\ Steps(events, "store") /= {} =>
         /\ _globalValidatorCallback => Steps(events, "globalValidator") /= {}
         /\ last.key \in _validators => Steps(events, "keyValidator") /= {}
    /\ Steps(events, "cache") /= {} => Steps(events, "store") /= {}
    /\ Steps(events, "change") /= {} => Steps(events, "cache") /= {}

\* the global validator accepted, then the key's validator rejected
C8_Witness ==
  /\ last.op = "set" /\ last.result = "ERR_INVALID_VALUE"
  /\ Len(events) = 2
  /\ events[1].e = "globalValidator" /\ events[1].r
  /\ events[2].e = "keyValidator" /\ ~events[2].r

\* C9: with a change callback registered, it is invoked exactly once per set
\* that returns PERSISTED with fireChangeCallback true, after the Storage
\* write and the cache update, with (k, the new value); it is never invoked
\* by a set that returns another result or was called with
\* fireChangeCallback false.
C9_ChangeCallback ==
  last.op = "set" =>
    LET n == Len(events) IN
    /\ (last.result = "PERSISTED" /\ last.flag /\ _changeCallback) =>
         /\ Cardinality(Steps(events, "change")) = 1
         /\ events[n] = Ev("change", last.key, last.value, TRUE)
         /\ n >= 3
         /\ events[n - 2] = Ev("store", last.key, last.value, TRUE)
         /\ events[n - 1] = Ev("cache", last.key, last.value, TRUE)
         /\ cacheAt(_cache, last.key) = last.value
    /\ (last.result /= "PERSISTED" \/ ~last.flag) => Steps(events, "change") = {}

\* a persisted set that notified, both validators having accepted
C9_Witness ==
  /\ last.op = "set" /\ last.result = "PERSISTED" /\ last.flag
  /\ Len(events) = 5 /\ events[5].e = "change"

Failed(evs, e) == \E i \in 1..Len(evs) : evs[i].e = e /\ ~evs[i].r

\* C10: a Storage I/O failure leaves the engine state unchanged: when the
\* physical write of set fails the call returns ERR_FAIL_ON_WRITE, when the
\* removal of unset fails the call returns ERR_FAIL_ON_REMOVE, and in both
\* cases the cache (with any previous entry for k) and the registry are as
\* before the call and no change callback fires.
C10_IoFailure ==
  [][ /\ (last'.op = "set" /\ Failed(events', "store"))
           => last'.result = "ERR_FAIL_ON_WRITE"
      /\ (last'.op = "unset" /\ Failed(events', "remove"))
           => last'.result = "ERR_FAIL_ON_REMOVE"
      /\ (last'.op = "set" /\ last'.result = "ERR_FAIL_ON_WRITE")
           => Failed(events', "store")
      /\ (last'.op = "unset" /\ last'.result = "ERR_FAIL_ON_REMOVE")
           => Failed(events', "remove")
      /\ (last'.op \in {"set", "unset"}
            /\ last'.result \in {"ERR_FAIL_ON_WRITE", "ERR_FAIL_ON_REMOVE"})
           => /\ _cache' = _cache
              /\ _keys' = _keys
              /\ _validators' = _validators
              /\ Steps(events', "change") = {} ]_vars

\* the write of a set failed while the cache held another value for the key
C10_Witness ==
  /\ last.op = "set" /\ last.result = "ERR_FAIL_ON_WRITE" /\ last.flag
  /\ _changeCallback
  /\ InCache(_cache, last.key) /\ _cache[last.key] /= last.value

\* the suffix test the enable keys are defined by: name ends with "_enable"
EndsWith(name, suffix) ==
  /\ Len(name) >= Len(suffix)
  /\ SubSeq(name, Len(name) - Len(suffix) + 1, Len(name)) = suffix

\* C6: the batch set applies two ordered passes: for every batch that holds
\* an enable key (name ending in "_enable") and a non-enable key, every
\* non-enable key's Storage write, validator invocation and change callback
\* happens strictly before any enable key's write, whatever their sort order;
\* {wifi_pwd, wifi_enable} writes wifi_pwd before wifi_enable.
C6_EnableKeysLast ==
  last.op = "setAll" =>
    \A i, j \in 1..Len(events) :
      ( /\ events[i].e = "store"
        /\ EndsWith(Mem[events[i].k], ENABLE_SUFFIX)
        /\ events[j].e \in {"store", "globalValidator", "keyValidator", "change"}
        /\ ~EndsWith(Mem[events[j].k], ENABLE_SUFFIX) )
      => j < i

\* no write fails
AllOk == [k \in Addr |-> "ok"]

\* C11: backup/restore round trip: on an Open engine whose stored values hold
\* no '=', CR or LF, whatever the registered names (one may be part of
\* another), taking a backup B, then clear(), then restore(B), all without
\* I/O failure, gives for every key k the same get(k) as before the backup.
C11_BackupRestoreRoundTrip ==
  enabled =>
    LET B       == BackupNow(TRUE)
        cleared == StorageRemoveAll(storage, TRUE).s
        r       == restore(cleared, EmptyMap, B, AllOk, NoPads)
    IN \A a \in Registered : _get(r.st, r.cache, key(a)).value = GetNow(a)

\* some registered key is found in data with a raw value that does not parse
\* against the key's default kind
ParseFails(data) ==
  \E i \in 1..Len(_keys) :
    LET f == FieldOf(data, Mem[_keys[i].name]) IN
    f.present /\ f.ended /\ fromString(f.raw, _keys[i].defaultValue) = NoValue

\* C12: restore(text) is all-or-nothing with respect to parsing: when the raw
\* value of a registered key found in the input does not parse against the
\* key's default kind, restore returns false, nothing is written to Storage,
\* no cache entry changes and no callback fires, also for the keys that sort
\* before the failing one.
C12_RestoreAllOrNothing ==
  [][ (last'.op = "restore" /\ ParseFails(last'.value.s)) =>
        /\ last'.result = "false"
        /\ storage' = storage
        /\ _cache' = _cache
        /\ events' = <<>> ]_vars

\* a restore of a text whose first field is fine and whose second, of a key
\* that sorts later, does not parse, with both callbacks installed
C12_Witness ==
  /\ last.op = "restore" /\ last.result = "false"
  /\ last.value = StrV(Line(AP_PWD, ABC) \o Line(PORT, <<"4", "x">>))
  /\ enabled /\ _restoreCallback /\ _changeCallback
  /\ ~hasKey(storage, AP_PWD)

\* C13: restore never invokes the change callback; it invokes the
\* restore-completed callback at most once per call and only when at least
\* one field changed; a restore whose values all equal what get already
\* returns for those keys does not fire the restore-completed callback and
\* returns false.
C13_RestoreNotifications ==
  [][ last'.op = "restore" =>
        LET changed == \E a \in Registered : GetNow(a)' /= GetNow(a) IN
        /\ Steps(events', "change") = {}
        /\ Cardinality(Steps(events', "restored")) <= 1
        /\ Steps(events', "restored") /= {} => changed
        /\ ~changed => last'.result = "false" ]_vars

\* the lines a backup is made of: for the keys from index i on, in registry
\* order
RECURSIVE LinesFrom(_, _)
LinesFrom(i, includeDefaults) ==
  IF i > Len(_keys) THEN <<>>
  ELSE (IF includeDefaults \/ hasKey(storage, Mem[_keys[i].name])
          THEN Line(Mem[_keys[i].name], toString(GetNow(_keys[i].name)))
          ELSE <<>>)
       \o LinesFrom(i + 1, includeDefaults)

\* C14: backup emits one newline-terminated line name=value per registered
\* key, in registry order (ascending by name), the value being
\* toString(get(name)); with includeDefaults false exactly the keys present in
\* Storage are emitted, with includeDefaults true every registered key.
C14_BackupFormat ==
  last.op = "backup" =>
    /\ Text(events) = LinesFrom(1, last.flag)
    /\ \A i, j \in 1..Len(_keys) :
         i < j => strcmp(Mem[_keys[i].name], Mem[_keys[j].name]) < 0

\* a backup without defaults while one key is stored and another is not
C14_Witness ==
  /\ last.op = "backup" /\ ~last.flag
  /\ hasKey(storage, PORT) /\ ~hasKey(storage, AP_PWD)
  /\ Text(events) = Line(PORT, <<"4", "2">>)

\* the transform of the last migrate was invoked and returned v
Transformed(evs, v) == \E i \in 1..Len(evs) : evs[i].e = "transform" /\ evs[i].v = v

\* C15: migration before begin: for a registered key k of declared kind K
\* whose Storage value x is loadable as FROM and a transform f that returns a
\* value of kind K, migrate<FROM>(k, f) on the un-begun engine returns
\* PERSISTED and leaves the cache empty, and after the following begin get(k)
\* equals f(x).
C15_MigrateBeforeBegin ==
  [][ /\ ( /\ last'.op = "migrate" /\ ~enabled
           /\ last'.key \in Registered
           /\ Transformed(events', last'.value)
           /\ index(last'.value) = index(DefaultOf(last'.key)) )
         => (last'.result = "PERSISTED" /\ _cache' = EmptyMap)
      /\ ( /\ last.op = "migrate" /\ last.result = "PERSISTED" /\ ~enabled
           /\ last'.op = "begin" /\ last'.result = "true" )
         => \A k \in {last.key} : GetNow(k)' = last.value ]_vars

\* C16: when the transform given to migrate<FROM>(k, f) yields no value for
\* the stored value, migrate returns REMOVED and the key is no longer present
\* in Storage, so that after begin stored(k) is false and get(k) returns k's
\* default.
C16_MigrateRemoves ==
  [][ /\ (last'.op = "migrate" /\ Transformed(events', NoValue))
         => (last'.result = "REMOVED" /\ ~hasKey(storage', Mem[last'.key]))
      /\ ( /\ last.op = "migrate" /\ last.result = "REMOVED" /\ ~enabled
           /\ last'.op = "begin" /\ last'.result = "true" )
         => \A k \in {last.key} :
              ~stored(storage, k)' /\ GetNow(k)' = DefaultOf(k) ]_vars

Legacy(st, a) == index(DefaultOf(a)) /= "Str" /\ StorageLoad(st, Mem[a], "Str") /= NoValue

\* the value the legacy entry of a reads as, NoValue when it does not parse
Parsed(st, a) == fromString(StorageLoad(st, Mem[a], "Str").s, DefaultOf(a))

\* the store of a failed during the pass
StoreFailed(evs, a) == \E i \in 1..Len(evs) : evs[i].e = "store" /\ evs[i].k = a /\ ~evs[i].r

\* Storage st holds for a the value v under a's declared kind and no string
MigratedTo(st, a, v) ==
  /\ StorageLoad(st, Mem[a], "Str") = NoValue
  /\ StorageLoad(st, Mem[a], index(DefaultOf(a))) = v

KeyFailed(st, evs, a) ==
  Legacy(st, a) /\ (Parsed(st, a) = NoValue \/ StoreFailed(evs, a))

\* C19: migrateFromString does not abort on the first failure: when the
\* conversion or the store of one key fails, every other convertible key is
\* still migrated, whatever its position in registry order, and the pass
\* returns true exactly when no key failed.
C19_MigrationContinues ==
  [][ last'.op = "migrateFromString" =>
        /\ \A a \in Registered :
             Legacy(storage, a) =>
               /\ \E i \in 1..Len(events') : events'[i].e = "convert" /\ events'[i].k = a
               /\ ~KeyFailed(storage, events', a) => MigratedTo(storage', a, Parsed(storage, a))
        /\ (last'.result = "true") <=> ~(\E a \in Registered : KeyFailed(storage, events', a)) ]_vars

\* the number, first in registry order, did not parse and the flag after it
\* was converted
C19_Witness ==
  /\ last.op = "migrateFromString" /\ last.result = "false"
  /\ storage.items[PORT] = Encode(StrV(<<"4", "x">>))
  /\ storage.items[WIFI_ENABLE] = Encode(Bool(TRUE))
  /\ Len(events) = 3 /\ events[1].k = A_PORT /\ ~events[1].r
  /\ events[3] = Ev("store", A_ENABLE, Bool(TRUE), TRUE)

\* a validator is installed for the name with the characters of k, at
\* whatever address it was given
ValidatorFor(k) == \E b \in _validators : Mem[b] = Mem[k]

\* C20: key identity is the name's content, not its address: get, set, unset
\* and setValidator called with a name that equals a registered name
\* character for character but lives at another address behave as with the
\* registered pointer: get(k) never returns a stale cache entry (it returns
\* Storage's value for k, or k's default), and a set that gets past the
\* global validator invokes the validator installed for the name.
C20_NameIdentity ==
  /\ \A a \in Registered :
       LET held == StorageLoad(storage, Mem[a], index(DefaultOf(a))) IN
       GetNow(a) = IF held /= NoValue THEN held ELSE DefaultOf(a)
  /\ ( /\ last.op = "set"
       /\ last.result \in {"PERSISTED", "ERR_INVALID_VALUE", "ERR_FAIL_ON_WRITE"}
       /\ ~Failed(events, "globalValidator")
       /\ ValidatorFor(last.key) )
     => Steps(events, "keyValidator") /= {}

\* the entries of the registry whose name reads as the string at address k
EntriesNamed(k) == {i \in 1..Len(_keys) : Mem[_keys[i].name] = Mem[k]}

\* C21: after any sequence of configure calls the registry is sorted
\* ascending by name; key(name) finds an entry whose name equals the argument
\* exactly when such a name was configured; configure of a name that is
\* already configured adds a second entry.
C21_RegistrySorted ==
  [][ /\ \A i \in 1..Len(_keys'), j \in 1..Len(_keys') :
           i < j => strcmp(Mem[_keys'[i].name], Mem[_keys'[j].name]) <= 0
      /\ last'.op = "keyRef" =>
           /\ (last'.result /= NULL) <=> (EntriesNamed(last'.key) /= {})
           /\ last'.result /= NULL => Mem[last'.result] = Mem[last'.key]
      /\ last'.op = "configure" =>
           /\ Len(_keys') = Len(_keys) + 1
           /\ \A k \in {last'.key} :
                Cardinality(EntriesNamed(k)') = Cardinality(EntriesNamed(k)) + 1
    ]_vars

\* a lookup that finds a name configured twice, in a registry of three keys
C21_Witness ==
  /\ last.op = "keyRef"
  /\ last.result /= NULL
  /\ Cardinality(EntriesNamed(last.key)) = 2
  /\ Len(_keys) = 3

\* C22: configure with a name longer than the platform's key-name limit
\* returns false and registers neither the key nor the validator; otherwise
\* it returns true and the key is registered.
C22_ConfigureNameLimit ==
  last.op = "configure" =>
    IF strlen(Mem[last.key]) > NVS_KEY_NAME_MAX_SIZE - 1
      THEN /\ last.result = "false"
           /\ EntriesNamed(last.key) = {}
           /\ last.key \notin _validators
      ELSE /\ last.result = "true"
           /\ \E i \in 1..Len(_keys) : _keys[i].name = last.key

\* C23: isEnableKey() is true exactly when the name ends with "_enable" and
\* isPasswordKey() exactly when it ends with "_pwd", for names of any length.
C23_SuffixClassification ==
  /\ last.op = "isEnableKey" =>
       ((last.result = "true") <=> EndsWith(last.value.s, ENABLE_SUFFIX))
  /\ last.op = "isPasswordKey" =>
       ((last.result = "true") <=> EndsWith(last.value.s, PASSWORD_SUFFIX))

\* C24: for a string key whose name ends with "_pwd" the value projected by
\* toJson is the fixed mask whatever value is stored (looked at where a
\* non-empty value is stored), and get still returns the real value.
C24_PasswordMasked ==
  last.op = "toJson" =>
    \A i \in 1..Len(events) :
      LET k == events[i].k IN
      ( /\ events[i].e = "json"
        /\ index(DefaultOf(k)) = "Str"
        /\ EndsWith(Mem[k], PASSWORD_SUFFIX)
        /\ stored(storage, k)
        /\ StorageLoad(storage, Mem[k], "Str").s /= <<>> )
      => /\ events[i].v = StrV(PASSWORD_MASK)
         /\ GetNow(k) = StorageLoad(storage, Mem[k], "Str")

\* C25: whenever the engine is not Open (never begun, begin failed, or after
\* end), set and unset return ERR_DISABLED, stored(k) is false, get(k) returns
\* k's default, and none of these calls reads, writes or removes anything in
\* Storage or changes the cache.
C25_DisabledEngine ==
  [][ ~enabled =>
        /\ \A k \in Registered : ~stored(storage, k)
        /\ last'.op \in {"set", "unset"} => last'.result = "ERR_DISABLED"
        /\ \A k \in {last'.key} :
             (last'.op = "get" /\ k \in Registered) => last'.value = DefaultOf(k)
        /\ last'.op \in {"set", "unset", "get"} =>
             /\ storage' = storage
             /\ _cache' = _cache
             /\ events' = <<>>
    ]_vars

\* after end, Storage holding a value for a key: set of that key is refused
C25_Witness ==
  /\ ~enabled
  /\ last.op = "set"
  /\ last.result = "ERR_DISABLED"
  /\ last.key \in Registered
  /\ storage.items[Mem[last.key]] /= Absent

\* C26: a successful unset(k, fire) returns REMOVED, evicts k's cache entry
\* and, when fire is true, invokes the change callback exactly once with
\* (k, k's default value); unset of an unregistered name returns
\* ERR_UNKNOWN_KEY (on an Open engine), and unset never invokes the change
\* callback on an error result.
C26_UnsetNotifies ==
  last.op = "unset" =>
    LET changes == Steps(events, "change") IN
    /\ (enabled /\ key(last.key) /= 0 /\ ~Failed(events, "remove"))
          => last.result = "REMOVED"
    /\ last.result = "REMOVED" =>
          /\ ~InCache(_cache, last.key)
          /\ IF last.flag /\ _changeCallback
               THEN /\ Cardinality(changes) = 1
                    /\ \A i \in changes :
                         events[i] = Ev("change", last.key, DefaultOf(last.key), TRUE)
               ELSE changes = {}
    /\ (enabled /\ key(last.key) = 0) => last.result = "ERR_UNKNOWN_KEY"
    /\ last.result /= "REMOVED" => changes = {}

\* an unset with fire true and a change callback registered, of a key that
\* was stored and cached with another value than its default
C26_Witness ==
  /\ last.op = "unset" /\ last.result = "REMOVED"
  /\ last.flag /\ _changeCallback
  /\ last.had /\ last.hit
  /\ Steps(events, "change") /= {}

\* C27: after clear() on an Open engine whose Storage removal succeeds, the
\* cache is empty and for every registered key k stored(k) is false and
\* get(k) returns k's default, whatever set/get calls came before.
C27_ClearResets ==
  (last.op = "clear" /\ enabled /\ ~Failed(events, "removeAll")) =>
    /\ _cache = EmptyMap
    /\ \A k \in Registered :
         /\ ~stored(storage, k)
         /\ GetNow(k) = DefaultOf(k)

\* a clear that succeeded on an engine that had stored and cached values
C27_Witness ==
  /\ last.op = "clear" /\ enabled /\ ~Failed(events, "removeAll")
  /\ last.had /\ last.hit

\* C28: round trip: for every value v of a bool or bounded-integer kind and
\* every string value, Value::fromString(v.toString(), v) returns a value
\* equal to v (same kind, same content).
C28_StringRoundTrip ==
  (last.op = "fromString" /\ last.flag) =>
    /\ last.result = "value"
    /\ ValueEq(events[2].v, last.value)

\* the round trip of a negative number
C28_Witness ==
  /\ last.op = "fromString" /\ last.flag
  /\ index(last.value) = "int32_t" /\ last.value.n < 0
  /\ events[1].v.s = <<"-", "4", "2">>

\* an optional sign followed by at least one digit, or nothing at all: the
\* texts of which a number parse leaves no character
WholeNumber(text) ==
  LET body == IF text /= <<>> /\ Head(text) = "-" THEN Tail(text) ELSE text IN
  \/ text = <<>>
  \/ body /= <<>> /\ \A i \in 1..Len(body) : IsDigit(body[i])

\* C29: against a numeric reference kind fromString returns no value
\* whenever a character of the text is left unconsumed by the number parse,
\* and only then; against a string kind it always returns the text; against
\* bool it always returns a value, false for any text that is not a truthy
\* literal.
C29_StrictParse ==
  last.op = "fromString" =>
    LET text == events[1].v.s
        parsed == events[2].v
    IN CASE index(last.value) = "Str"  -> parsed = StrV(text)
         [] index(last.value) = "bool" ->
              /\ parsed \in {Bool(TRUE), Bool(FALSE)}
              /\ text \notin TruthyTexts => parsed = Bool(FALSE)
         [] OTHER ->
              /\ (parsed = NoValue) <=> ~WholeNumber(text)
              /\ parsed /= NoValue => index(parsed) = index(last.value)

\* a number followed by a letter, parsed against a number
C29_Witness ==
  /\ last.op = "fromString"
  /\ index(last.value) = "int32_t"
  /\ events[1].v.s = <<"4", "x">>
  /\ last.result = "nullopt"

C31_KindInvariant ==
  /\ \A k \in DOMAIN _cache :
       k \in Registered => index(_cache[k]) = index(DefaultOf(k))
  /\ (last.op = "get" /\ last.result = "value")
       => index(last.value) = index(DefaultOf(last.key))
  /\ last.op = "set" =>
       \A i \in Steps(events, "store") :
         index(events[i].v) = index(DefaultOf(events[i].k))

\* C32: defaults are never pinned into the cache: a get(k) whose typed load
\* from Storage is absent returns k's default and creates no cache entry, so
\* a value later written to Storage for k is what the next get(k) returns.
C32_DefaultNotCached ==
  [][ \A k \in {last'.key} :
        /\ ( /\ last'.op = "get" /\ enabled /\ k \in Registered
             /\ ~InCache(_cache, k)
             /\ _load(storage, k, index(DefaultOf(k))) = NoValue )
           => /\ last'.value = DefaultOf(k)
              /\ _cache' = _cache
        /\ (last'.op = "set" /\ last'.result = "PERSISTED")
           => _get(storage', _cache', key(k)).value = last'.value
    ]_vars

\* a get on an Open engine found nothing in Storage for its key: it returned
\* the default and the cache has no entry for the key
C32_Witness ==
  /\ last.op = "get" /\ enabled /\ last.key \in Registered
  /\ ~stored(storage, last.key)
  /\ last.value = DefaultOf(last.key)
  /\ ~InCache(_cache, last.key)

\* the raw value of the key `name` in data as the claim reads it: from the
\* character after the first "name=" up to the first CR, the first LF or the
\* end of data; found: data holds "name="
RawValue(data, name) ==
  LET start == strstr(data, name)
      eq    == start + Len(name)
      stops == {i \in (eq + 1)..Len(data) : data[i] \in {CR, LF}}
      end   == IF stops = {} THEN Len(data) + 1
               ELSE CHOOSE i \in stops : \A j \in stops : i <= j
  IN IF start = 0 \/ eq > Len(data) \/ data[eq] /= EQ
       THEN [found |-> FALSE, raw |-> <<>>]
       ELSE [found |-> TRUE, raw |-> SubSeq(data, eq + 1, end - 1)]

\* C33: restore(text) reads the raw value of a key from the character after
\* "name=" up to the first CR, the first LF or the end of the input: a last
\* line name=value without a trailing newline is accepted and restored like
\* any other line (on an Open engine, every raw value parsing and no write
\* failing, get(k) is the parsed value for every key found in the text).
C33_RestoreLastLine ==
  ( /\ last.op = "restore" /\ enabled
    /\ ~Failed(events, "store")
    /\ \A k \in Registered :
         RawValue(last.value.s, Mem[k]).found
           => fromString(RawValue(last.value.s, Mem[k]).raw, DefaultOf(k)) /= NoValue )
  => \A k \in Registered :
       RawValue(last.value.s, Mem[k]).found
         => GetNow(k) = fromString(RawValue(last.value.s, Mem[k]).raw, DefaultOf(k))

\* C34: migrate surfaces a Storage failure: it returns PERSISTED only when
\* the migrated value was actually stored and REMOVED only when the key was
\* actually removed; when the Storage store or remove call fails the result
\* is a failure-class result, never PERSISTED or REMOVED.
C34_MigrateSurfacesFailure ==
  last.op = "migrate" =>
    /\ last.result = "PERSISTED"
         => /\ \E i \in Steps(events, "store") : events[i].r
            /\ _load(storage, last.key, index(last.value)) = last.value
    /\ last.result = "REMOVED"
         => /\ \E i \in Steps(events, "remove") : events[i].r
            /\ ~hasKey(storage, Mem[last.key])
    /\ (Failed(events, "store") \/ Failed(events, "remove"))
         => last.result \notin {"PERSISTED", "REMOVED"}

\* what Storage holds for k when it is open: the value loaded with the kind
\* of k's default, NoValue when there is none
Persisted(st, k) == _load([st EXCEPT !.handle = TRUE], k, index(DefaultOf(k)))

\* C35: lifecycle Unopened -> Open -> Closed -> Open: end() empties the cache
\* and leaves the engine not Open, only a fresh successful begin makes it
\* Open again, and every value persisted by set before end is returned by
\* get after the re-begin (persisted values survive close and reopen, cached
\* values do not leak across it).
C35_Lifecycle ==
  [][ /\ last'.op = "end"
           => /\ _cache' = EmptyMap /\ ~enabled'
              /\ storage'.items = storage.items
      /\ (~enabled /\ enabled') => (last'.op = "begin" /\ last'.result = "true")
      /\ (~enabled /\ last'.op /= "begin") => (~enabled' /\ storage' = storage)
      /\ last'.op = "begin" => storage'.items = storage.items
      /\ (last'.op = "set" /\ last'.result = "PERSISTED")
           => \A k \in {last'.key} : Persisted(storage, k)' = last'.value
      /\ (~enabled /\ last'.op = "begin" /\ last'.result = "true")
           => \A k \in Registered :
                /\ GetNow(k)' = IF Persisted(storage, k) /= NoValue
                                  THEN Persisted(storage, k) ELSE DefaultOf(k)
                /\ InCache(_cache', k) => _cache'[k] = Persisted(storage, k)
    ]_vars

\* the engine was closed and is Open again; a value set before the close is
\* in Storage, not in the cache, and get returns it
C35_Witness ==
  /\ last.op = "begin" /\ last.result = "true" /\ enabled
  /\ \E k \in Registered :
       /\ stored(storage, k) /\ ~InCache(_cache, k)
       /\ GetNow(k) = Persisted(storage, k)
       /\ GetNow(k) /= DefaultOf(k)

\* C38: get is logically read-only: no get call, on a cache hit or a miss,
\* writes or removes anything in Storage, invokes a validator or a callback,
\* or changes the result of stored(k) or of a later get for any key; its only
\* side effect is adding a cache entry for the key read.
C38_GetReadOnly ==
  [][ last'.op = "get" =>
        /\ storage' = storage
        /\ events' = <<>>
        /\ UNCHANGED <<_keys, _name, _validators, _globalValidatorCallback,
                       _changeCallback, _restoreCallback>>
        /\ \A k \in Registered :
             /\ stored(storage, k)' = stored(storage, k)
             /\ GetNow(k)' = GetNow(k)
        /\ \A kx \in {key(last'.key)} :
             \/ _cache' = _cache
             \/ /\ kx /= 0 /\ ~InCache(_cache, _keys[kx].name)
                /\ _cache' = MapPut(_cache, _keys[kx].name, last'.value)
                /\ last'.value = GetNow(_keys[kx].name)
    ]_vars

\* a get of a stored key has returned the stored value, which is in the cache
C38_Witness ==
  /\ last.op = "get" /\ last.result = "value" /\ enabled
  /\ stored(storage, last.key) /\ InCache(_cache, last.key)
  /\ last.value = Persisted(storage, last.key)
  /\ last.value /= DefaultOf(last.key)
  /\ \E k \in Registered : ~stored(storage, k)

\* the numbers a bounded integer kind holds
InRange(kind, n) ==
  IF kind = "uint8_t" THEN 0 <= n /\ n <= 255
  ELSE -2147483647 - 1 <= n /\ n <= 2147483647

\* C39: Value::fromString against a bounded integer kind of width w never
\* returns a value different from the number the text denotes: for text
\* denoting a number outside the kind's range, or a negative number for an
\* unsigned kind, it returns no value instead of the number reduced modulo
\* 2^w.
C39_RangeChecked ==
  ( /\ last.op = "fromString"
    /\ index(last.value) \notin {"bool", "Str"}
    /\ events[1].v.s /= <<>> /\ WholeNumber(events[1].v.s) )
  => LET denoted == strtol(events[1].v.s).val
         parsed  == events[2].v
     IN /\ parsed /= NoValue => parsed.n = denoted
        /\ ~InRange(index(last.value), denoted) => parsed = NoValue

\* the steps of evs at which the attempt on k ended: the validator that
\* rejected the value, or the physical write
Attempts(evs, k) ==
  {i \in 1..Len(evs) :
     /\ evs[i].k = k
     /\ \/ evs[i].e = "store"
        \/ evs[i].e \in {"globalValidator", "keyValidator"} /\ ~evs[i].r}

\* C40: the batch set treats its entries independently: every entry whose
\* name is a registered key is attempted exactly once even when an earlier
\* entry was rejected or failed to write (an entry that is the default of a
\* key that is not stored is DEFAULTED and takes no step), entries whose
\* name is not registered are ignored, and registered keys absent from the
\* batch keep their Storage value and cache entry.  A name is registered
\* when Config::key finds it, that is by its characters.
C40_BatchIndependent ==
  [][ (last'.op = "setAll" /\ enabled) =>
        /\ \A k \in DOMAIN last'.batch :
             IF key(k) = 0
               THEN \A i \in 1..Len(events') : events'[i].k /= k
               ELSE \A a \in {_keys[key(k)].name} :
                 IF isDefaulted(stored(storage, a), DefaultOf(a), last'.batch[k])
                   THEN \A i \in 1..Len(events') : events'[i].k /= a
                   ELSE /\ Cardinality(Attempts(events', a)) = 1
                        /\ \A i \in Attempts(events', a) :
                             /\ events'[i].v = last'.batch[k]
                             /\ (events'[i].e = "store" /\ events'[i].r)
                                  => /\ Persisted(storage', a) = last'.batch[k]
                                     /\ InCache(_cache', a)
                                     /\ _cache'[a] = last'.batch[k]
                             /\ ~(events'[i].e = "store" /\ events'[i].r)
                                  => /\ storage'.items[Mem[a]] = storage.items[Mem[a]]
                                     /\ InCache(_cache', a) = InCache(_cache, a)
                                     /\ InCache(_cache, a) => _cache'[a] = _cache[a]
        /\ \A a \in Registered :
             (\A k \in DOMAIN last'.batch : key(k) /= key(a))
               => /\ \A i \in 1..Len(events') : events'[i].k /= a
                  /\ storage'.items[Mem[a]] = storage.items[Mem[a]]
                  /\ InCache(_cache', a) = InCache(_cache, a)
                  /\ InCache(_cache, a) => _cache'[a] = _cache[a]
    ]_vars

\* the last two calls that returned wrote the same key, both returned
\* PERSISTED and no call is in progress
BothPersisted(k) ==
  /\ DOMAIN calls = {}
  /\ Len(events) = 2
  /\ \A i \in 1..2 :
       /\ events[i].e \in {"serialized", "unserialized"}
       /\ events[i].k = k /\ events[i].r

\* the cache holds for k a value different from the one in Storage
Stale(k) == InCache(_cache, k) /\ _cache[k] /= Persisted(storage, k)

\* C36: the engine has no internal locking: set's physical write and its
\* cache update are separate steps, so when two callers run set on the same
\* key without external serialization, an interleaving is reachable in which
\* the calls both return PERSISTED and the cache holds a value different from
\* the one in Storage (C36_Witness); when each call is serialized (run
\* atomically) no such state is reachable.
C36_SerializedCoherent ==
  \A k \in Registered :
    (BothPersisted(k) /\ \A i \in 1..2 : events[i].e = "serialized")
      => ~Stale(k)

\* two unserialized set calls on wifi_pwd have both returned PERSISTED and the
\* cache holds another value than Storage
C36_Witness ==
  /\ BothPersisted(A_PWD)
  /\ \A i \in 1..2 : events[i].e = "unserialized"
  /\ Stale(A_PWD)

\* an outermost set or unset has returned
Returned == calls = <<>> /\ last.op \in {"set", "unset"} /\ last.result /= ""

\* the cache agrees with Storage for every key
Coherent == \A k \in Registered : ~Stale(k)

\* C37 as stated: when a change callback or a validator re-enters set or
\* unset on the same engine, then once the outermost call has returned the
\* cache agrees with Storage for every key, and if the outermost call
\* returned PERSISTED for (k, v) then get(k) returns v.
C37_ReentrantResult ==
  Returned =>
    /\ Coherent
    /\ (last.op = "set" /\ last.result = "PERSISTED")
         => GetNow(last.key) = last.value

\* C37 amended: once the outermost call has returned the cache agrees with
\* Storage for every key; if the outermost call returned PERSISTED for (k, v)
\* and no set or unset of k was entered from a callback after its write
\* (while its change callback ran), then get(k) returns v.
C37_ReentrantCoherent ==
  Returned =>
    /\ Coherent
    /\ ( /\ last.op = "set" /\ last.result = "PERSISTED"
         /\ \A i \in 1..Len(events) :
              ~(events[i].e = "change" /\ events[i].k = last.key) )
         => GetNow(last.key) = last.value

\* the validator of wifi_pwd re-entered the engine for wifi_pwd and for no
\* other key, the change callback re-entered it for another key; the
\* outermost set returned PERSISTED and get returns its value
C37_Witness ==
  /\ Returned /\ last.op = "set" /\ last.result = "PERSISTED"
  /\ last.key = A_PWD /\ last.value = StrV(ABC)
  /\ \E i \in 1..Len(events) : events[i].e = "validator" /\ events[i].k = A_PWD
  /\ \E i \in 1..Len(events) : events[i].e = "change" /\ events[i].k = A_ENABLE
  /\ stored(storage, A_ENABLE)
  /\ GetNow(A_PWD) = StrV(ABC)

====
